---- MODULE Spec2Model ----
(***************************************************************************)
(* A model of crash_locator's signature-resolution and source-location     *)
(* engine: MethodSignature equality and package types (my_types.py,        *)
(* utils/helper.py), the stack-trace resolution loop, boundary             *)
(* classification and the pre_check pipeline (pre_check.py), the call      *)
(* graph queries (utils/cg.py) and the source locator                      *)
(* (utils/java_parser.py).                                                 *)
(*                                                                         *)
(* Conventions.  Python's Optional[T] is a sequence of length 0 (None) or  *)
(* 1.  Package and method names are sequences of characters, so that       *)
(* str.startswith is computed.  A type name is the sequence of its "."-    *)
(* and "$"-separated segments, an inner-class path the sequence of its     *)
(* "$"-separated segments.  A raised exception is recorded by its class    *)
(* name in the variable failure (or in the kind of a returned result).     *)
(*                                                                         *)
(* pre_check.py names three things that the other files spell differently: *)
(* MethodCodeException (the retrieval family, CodeRetrievalException in    *)
(* exceptions.py), get_application_code(apk_name, candidate) (the          *)
(* hierarchy lookup that raises ValueError outside the application code    *)
(* directory, get_candidate_code in java_parser.py) and MethodType         *)
(* (PackageType in helper.py).  The model follows pre_check.py's control   *)
(* flow and resolves each of these names to the definition just given.     *)
(***************************************************************************)
EXTENDS Integers, Sequences, FiniteSets, TLC

VARIABLES
    pc,               \* position of the modelled call
    failure,          \* the exception that ended the call, "none" otherwise
    self_sig,         \* MethodSignature.__eq__: self
    other_sig,        \* MethodSignature.__eq__: other
    eq_result,        \* MethodSignature.__eq__: returned value
    signature_text,   \* MethodSignature.from_str: method_signature
    str_result,       \* MethodSignature.__str__: returned text
    package_type,     \* PackageType.get_package_type: returned value
    method_type,      \* helper.get_method_type: returned value
    stack_trace,      \* report["Crash Info in Dataset"]["stack trace signature"]
    android_cg,       \* edges of the framework call-graph file
    apk_cg,           \* edges of the application call-graph file
    run,              \* complete_self_invoke_trace: (index, end_index), 1-based
    next_method,      \* complete_self_invoke_trace: next_method
    invoke_list,      \* complete_self_invoke_trace: invoke_list
    cg_queried,       \* a call-graph query has been made
    completed_trace,  \* the trace a first call of report_completion wrote back
    file_read,        \* a source file has been looked up
    method_signature, \* _get_method_code_in_file: method_signature
    code_file,        \* _get_method_code_in_file: the file at file_path
    candidate,        \* get_candidate_code: candidate
    app_tree,         \* files of config.application_code_dir(apk_name)
    framework_tree,   \* files of the framework and support code directories
    code_result,      \* result of the source lookup
    exception_info,   \* the raw record's exception-info section
    stack_trace_short_api, \* report["Crash Info in Dataset"]["stack trace"]
    raw_candidates,   \* the raw record's "Buggy Method Candidates"
    labeled_buggy_method,  \* the raw record's "Labeled Buggy Method"
    framework_trace,  \* _get_and_check_framework_stack: framework_trace
    framework_short_trace, \* ... and framework_short_trace
    framework_entry_api,   \* pre_check: framework_entry_api
    report_info,      \* the ReportInfo under construction / returned
    statistic,        \* the module-level PreCheckStatistic of pre_check.py
    crash_reports,    \* main: the entries of the crash-reports directory
    report_index,     \* main: position of the loop over the entries
    threads,          \* concurrent pre_check calls: each thread's position and locals
    run_statistic,    \* a RunStatistic object
    base_candidates,  \* ReportInfo.base_candidates: returned list
    extra_candidates, \* ReportInfo.extra_candidates: returned list
    iteration,        \* report_completion: turns of the while loop begun so far
    input_trace,      \* report_completion: the trace as the loop received it
    tried             \* get_candidate_code: the files looked up, in order

eqVars ==
    <<self_sig, other_sig, eq_result, signature_text, str_result, package_type,
      method_type>>
cgVars == <<android_cg, apk_cg>>
selfInvokeVars == <<run, next_method, invoke_list>>
resolveVars ==
    <<stack_trace, android_cg, apk_cg, run, next_method, invoke_list, cg_queried,
      completed_trace>>
locatorVars ==
    <<method_signature, code_file, candidate, app_tree, framework_tree,
      code_result, file_read, tried>>
loopVars == <<iteration, input_trace>>
otherVars ==
    <<threads, run_statistic, base_candidates, extra_candidates, loopVars>>
rawVars ==
    <<exception_info, stack_trace_short_api, raw_candidates,
      labeled_buggy_method, crash_reports, report_index, otherVars>>
boundaryVars ==
    <<framework_trace, framework_short_trace, framework_entry_api>>
pipelineVars ==
    <<exception_info, stack_trace_short_api, raw_candidates,
      labeled_buggy_method, framework_trace, framework_short_trace,
      framework_entry_api, report_info, statistic, crash_reports,
      report_index, otherVars>>
vars ==
    <<pc, failure, self_sig, other_sig, eq_result, signature_text, str_result,
      package_type, method_type,
      stack_trace, android_cg,
      apk_cg, run, next_method, invoke_list, cg_queried, completed_trace,
      file_read,
      method_signature, code_file, candidate, app_tree, framework_tree,
      code_result, exception_info, stack_trace_short_api, raw_candidates,
      labeled_buggy_method, framework_trace, framework_short_trace,
      framework_entry_api, report_info, statistic, crash_reports,
      report_index, threads, run_statistic, base_candidates, extra_candidates,
      iteration, input_trace, tried>>

None == <<>>
Some(x) == <<x>>

Range(f) == {f[x] : x \in DOMAIN f}
Reverse(s) == [i \in 1..Len(s) |-> s[Len(s) + 1 - i]]
Min(S) == CHOOSE x \in S : \A y \in S : x <= y
Last(s) == s[Len(s)]

\* str.startswith
StartsWith(s, prefix) ==
    /\ Len(s) >= Len(prefix)
    /\ SubSeq(s, 1, Len(prefix)) = prefix

(***************************************************************************)
(* Names                                                                   *)
(***************************************************************************)
Pkg_java == <<"j", "a", "v", "a">>
Pkg_android == <<"a", "n", "d", "r", "o", "i", "d">>
Pkg_android_support ==
    Pkg_android \o <<".", "s", "u", "p", "p", "o", "r", "t">>
Pkg_com_android == <<"c", "o", "m", ".">> \o Pkg_android
Pkg_android_view == Pkg_android \o <<".", "v", "i", "e", "w">>
Pkg_android_os == Pkg_android \o <<".", "o", "s">>
Pkg_android_app == Pkg_android \o <<".", "a", "p", "p">>
Pkg_android_location == Pkg_android \o <<".", "l", "o", "c">>
Pkg_android_support_v4 == Pkg_android_support \o <<".", "v", "4">>
Pkg_java_util == Pkg_java \o <<".", "u", "t", "i", "l">>
Pkg_com_app == <<"c", "o", "m", ".", "a", "p", "p">>

Name_m == <<"m">>
Name_n == <<"n">>
Name_access == <<"a", "c", "c", "e", "s", "s", "$">>
Name_access_000 == Name_access \o <<"0", "0", "0">>

Type_void == <<"void">>
Type_int == <<"int">>
Type_long == <<"long">>
Type_String == <<"java", "lang", "String">>
Type_Intent == <<"android", "content", "Intent">>
Type_Bundle == <<"android", "os", "Bundle">>

(***************************************************************************)
(* MethodSignature, ClassSignature, PackageType (my_types.py)              *)
(***************************************************************************)
Sig(package_name, class_name, inner_class, method_name, return_type, parameters) ==
    [package_name |-> package_name, class_name |-> class_name,
     inner_class |-> inner_class, method_name |-> method_name,
     return_type |-> return_type, parameters |-> parameters]

ClassSig(package_name, class_name, inner_class) ==
    [package_name |-> package_name, class_name |-> class_name,
     inner_class |-> inner_class]

\* The signatures MethodSignature.__eq__ is applied to.
MethodSignature ==
    [package_name : {Pkg_android_app, Pkg_com_app}, class_name : {"Main"},
     inner_class : {None, Some(<<"Inner">>)}, method_name : {Name_m, Name_n},
     return_type : {None, Some(Type_void), Some(Type_int)},
     parameters : {None, Some(<<>>), Some(<<Type_int>>)}]

\* A plausible slip: the return type compared exactly, not as a wildcard.
MethodSignature_eq_strict_return(self, other) ==
    /\ self.package_name = other.package_name
    /\ self.class_name = other.class_name
    /\ self.inner_class = other.inner_class
    /\ self.method_name = other.method_name
    /\ self.return_type = other.return_type
    /\ ~(self.parameters # None /\ other.parameters # None
         /\ self.parameters # other.parameters)

\* A plausible slip: only an unspecified field of self is a wildcard.
MethodSignature_eq_self_wildcard(self, other) ==
    /\ self.package_name = other.package_name
    /\ self.class_name = other.class_name
    /\ self.inner_class = other.inner_class
    /\ self.method_name = other.method_name
    /\ ~(self.return_type # None /\ self.return_type # other.return_type)
    /\ ~(self.parameters # None /\ self.parameters # other.parameters)

\* MethodSignature.__eq__
MethodSignature_eq(self, other) ==
    IF self.package_name # other.package_name THEN FALSE
    ELSE IF self.class_name # other.class_name THEN FALSE
    ELSE IF self.inner_class # other.inner_class THEN FALSE
    ELSE IF self.method_name # other.method_name THEN FALSE
    ELSE IF /\ self.return_type # None
            /\ other.return_type # None
            /\ self.return_type # other.return_type THEN FALSE
    ELSE IF /\ self.parameters # None
            /\ other.parameters # None
            /\ self.parameters # other.parameters THEN FALSE
    ELSE TRUE

\* MethodSignature.class_list
class_list(sig) ==
    <<sig.class_name>> \o (IF sig.inner_class = None THEN <<>> ELSE sig.inner_class[1])

\* MethodSignature.full_class_name: the text is determined by, and
\* determines, the package, the class and the inner-class segments.
full_class_name(sig) == <<sig.package_name>> \o class_list(sig)

\* MethodSignature.into_path: package directory and file name
into_path(sig) == <<sig.package_name, sig.class_name>>

\* PackageType.get_package_type
PackageType_get_package_type(signature) ==
    LET s == signature.package_name IN
    CASE StartsWith(s, Pkg_java) -> "JAVA"
      [] ~StartsWith(s, Pkg_java) /\ StartsWith(s, Pkg_android_support)
           -> "ANDROID_SUPPORT"
      [] /\ ~StartsWith(s, Pkg_java)
         /\ ~StartsWith(s, Pkg_android_support)
         /\ (StartsWith(s, Pkg_android) \/ StartsWith(s, Pkg_com_android))
           -> "ANDROID"
      [] OTHER -> "APPLICATION"

(***************************************************************************)
(* The signature texts that occur in the modelled traces, call graphs and  *)
(* candidate records, and what parsing each of them yields.                *)
(***************************************************************************)
\* parse_signature / MethodSignature.from_str on the text of one signature
SigRecord(id) ==
    CASE id = "A" -> Sig(Pkg_android_view, "View", None, <<"i">>, Some(Type_void), Some(<<<<"android", "graphics", "Rect">>>>))
      [] id = "B" -> Sig(Pkg_android_view, "View", None, <<"i">>, Some(Type_void), Some(<<Type_int, Type_int>>))
      [] id = "C" -> Sig(Pkg_android_view, "View", None, <<"i">>, Some(Type_void), Some(<<>>))
      [] id = "D" -> Sig(Pkg_android_view, "View", None, <<"d">>, Some(Type_void), Some(<<>>))
      [] id = "X" -> Sig(Pkg_android_view, "View", None, <<"x">>, Some(Type_void), Some(<<>>))
      [] id = "S" -> Sig(Pkg_android_support_v4, "Fragment", None, <<"s">>, Some(Type_void), Some(<<>>))
      [] id = "J" -> Sig(Pkg_java_util, "List", None, <<"g">>, Some(Type_int), Some(<<Type_int>>))
      [] id = "Y" -> Sig(Pkg_com_app, "Main", None, Name_m, Some(Type_void), Some(<<Type_int>>))
      [] id = "Y2" -> Sig(Pkg_com_app, "Main", None, Name_m, Some(Type_void), Some(<<Type_long>>))
      [] id = "Ys" -> Sig(Pkg_com_app, "Main", None, Name_m, None, None)
      [] id = "Z" -> Sig(Pkg_com_app, "Main", None, Name_n, Some(Type_void), Some(<<>>))
      [] id = "Acc" -> Sig(Pkg_com_app, "Main", None, Name_access_000, Some(Type_void), Some(<<>>))
      [] id = "sAFR3" -> Sig(Pkg_android_app, "Activity", None, <<"f">>, Some(Type_void), Some(<<Type_Intent, Type_int, Type_Bundle>>))
      [] id = "sAFR4" -> Sig(Pkg_android_app, "Activity", None, <<"f">>, Some(Type_void), Some(<<Type_String, Type_Intent, Type_int, Type_Bundle>>))
      [] id = "sAFR2" -> Sig(Pkg_android_app, "Activity", None, <<"f">>, Some(Type_void), Some(<<Type_Intent, Type_int>>))
      [] id = "sA1" -> Sig(Pkg_android_app, "Activity", None, <<"a">>, Some(Type_void), Some(<<Type_Intent>>))
      [] id = "sA2" -> Sig(Pkg_android_app, "Activity", None, <<"a">>, Some(Type_void), Some(<<Type_Intent, Type_Bundle>>))
      [] id = "rE2" -> Sig(Pkg_android_os, "Parcel", None, <<"r">>, Some(Type_void), Some(<<Type_int, Type_String>>))
      [] id = "rE0" -> Sig(Pkg_android_os, "Parcel", None, <<"r">>, Some(Type_void), Some(<<>>))
      [] id = "rLU_PI" -> Sig(Pkg_android_location, "LocationManager", None, <<"u">>, Some(Type_void), Some(<<Type_String, Type_long, <<"float">>, <<"android", "app", "PendingIntent">>>>))
      [] id = "rLU_LL" -> Sig(Pkg_android_location, "LocationManager", None, <<"u">>, Some(Type_void), Some(<<Type_String, Type_long, <<"float">>, <<"android", "location", "LocationListener">>, <<"android", "os", "Looper">>>>))
      [] id = "rLU_L" -> Sig(Pkg_android_location, "LocationManager", None, <<"u">>, Some(Type_void), Some(<<Type_String, Type_long, <<"float">>, <<"android", "location", "LocationListener">>>>))

\* helper.get_method_type on the text of one signature
get_method_type(sig) ==
    LET package_name == SigRecord(sig).package_name IN
    IF StartsWith(package_name, Pkg_java) THEN "JAVA"
    ELSE IF StartsWith(package_name, Pkg_android_support) THEN "ANDROID_SUPPORT"
    ELSE IF \/ StartsWith(package_name, Pkg_android)
            \/ StartsWith(package_name, Pkg_com_android) THEN "ANDROID"
    ELSE "APPLICATION"


(***************************************************************************)
(* MethodSignature.from_str and MethodSignature.__str__ on texts: a text   *)
(* is a sequence of characters, and the parsed fields are texts.           *)
(***************************************************************************)
Max(S) == CHOOSE x \in S : \A y \in S : x >= y

\* \w of the regular expressions
WordChars ==
    {"a", "b", "i", "l", "m", "n", "o", "t", "v", "d", "g", "B", "I", "J", "_"}
IsWord(s) == Len(s) > 0 /\ \A i \in 1..Len(s) : s[i] \in WordChars
\* \S+
IsNonSpace(s) == Len(s) > 0 /\ \A i \in 1..Len(s) : s[i] # " "

\* str.strip(chars)
RECURSIVE lstrip(_, _)
lstrip(s, chars) ==
    IF Len(s) > 0 /\ s[1] \in chars THEN lstrip(Tail(s), chars) ELSE s
RECURSIVE rstrip(_, _)
rstrip(s, chars) ==
    IF Len(s) > 0 /\ s[Len(s)] \in chars
    THEN rstrip(SubSeq(s, 1, Len(s) - 1), chars) ELSE s
strip(s, chars) == rstrip(lstrip(s, chars), chars)

\* str.split(","), then strip() of each piece and filter(None, ...)
RECURSIVE split(_, _)
split(s, sep) ==
    LET at == {i \in 1..Len(s) : s[i] = sep} IN
    IF at = {} THEN <<s>>
    ELSE <<SubSeq(s, 1, Min(at) - 1)>> \o split(SubSeq(s, Min(at) + 1, Len(s)), sep)
ParameterList(parameter_list) ==
    LET pieces == split(strip(parameter_list, {"(", ")"}), ",") IN
    SelectSeq([i \in 1..Len(pieces) |-> strip(pieces[i], {" "})],
              LAMBDA param : param # <<>>)

\* ", ".join(parameters)
RECURSIVE join(_)
join(parameters) ==
    IF Len(parameters) = 0 THEN <<>>
    ELSE IF Len(parameters) = 1 THEN parameters[1]
    ELSE parameters[1] \o <<",", " ">> \o join(Tail(parameters))

\* (\S+)\.(\w+)(\$\S+)? on the whole of head: the positions of the "."
\* that can end the package name; the greedy first group takes the last.
ClassSplits(head) ==
    {d \in 2..(Len(head) - 1) :
        /\ head[d] = "."
        /\ IsNonSpace(SubSeq(head, 1, d - 1))
        /\ LET rest == SubSeq(head, d + 1, Len(head))
               dollars == {i \in 1..Len(rest) : rest[i] = "$"}
               ends == {Len(rest)} \cup {i - 1 : i \in {j \in dollars : j < Len(rest)}}
           IN \E e \in ends :
                 /\ IsWord(SubSeq(rest, 1, e))
                 /\ IsNonSpace(SubSeq(rest, e + 1, Len(rest)) \o <<"x">>)}
\* the class name and the inner class of the head split at d: \w+ is
\* greedy, so the class name runs to the first character that is not \w
ClassFields(head, d) ==
    LET rest == SubSeq(head, d + 1, Len(head))
        stops == {i \in 1..Len(rest) : rest[i] \notin WordChars}
        e == IF stops = {} THEN Len(rest) ELSE Min(stops) - 1
        inner_class == SubSeq(rest, e + 1, Len(rest))
    IN [package_name |-> SubSeq(head, 1, d - 1),
        class_name |-> SubSeq(rest, 1, e),
        inner_class |-> IF inner_class = <<>> THEN None
                        ELSE Some(strip(inner_class, {"$"}))]

\* MethodSignature(**m.groupdict()) with the class fields of a match
SigOfFields(fields, method_name, return_type, parameters) ==
    Sig(fields.package_name, fields.class_name, fields.inner_class, method_name,
        return_type, parameters)

Text_init == <<"<", "i", "n", "i", "t", ">">>
Text_clinit == <<"<", "c", "l", "i", "n", "i", "t", ">">>
Text_None == <<"N", "o", "n", "e">>

\* pattern1 on the stripped text: the fields, or None.  bracketed holds the
\* method names the pattern spells out beside [\w$]+ ("<init>", and in
\* from_str "<clinit>").
Pattern1(text, bracketed) ==
    LET colons == {p \in 2..(Len(text) - 1) : text[p] = ":" /\ text[p + 1] = " "}
        heads == {p \in colons : ClassSplits(SubSeq(text, 1, p - 1)) # {}}
    IN IF heads = {} THEN None
       ELSE LET p == Min(heads)
                head == SubSeq(text, 1, p - 1)
                tail == SubSeq(text, p + 2, Len(text))
                spaces == {i \in 1..Len(tail) : tail[i] = " "}
            IN IF spaces = {} \/ Min(spaces) = 1 THEN None
               ELSE LET return_type == SubSeq(tail, 1, Min(spaces) - 1)
                        named == SubSeq(tail, Min(spaces) + 1, Len(tail))
                        opens == {i \in 1..Len(named) : named[i] = "("}
                        n == IF opens = {} THEN Len(named) ELSE Min(opens) - 1
                        method_name == SubSeq(named, 1, n)
                        parameter_list == SubSeq(named, n + 1, Len(named))
                        name_ok ==
                           \/ method_name \in bracketed
                           \/ /\ Len(method_name) > 0
                              /\ \A i \in 1..n : method_name[i] \in WordChars \cup {"$"}
                        list_ok ==
                           \/ parameter_list = <<>>
                           \/ /\ Len(parameter_list) >= 2
                              /\ parameter_list[Len(parameter_list)] = ")"
                              /\ \A i \in 2..(Len(parameter_list) - 1) :
                                    parameter_list[i] \notin {"(", ")"}
                    IN IF ~(name_ok /\ list_ok) THEN None
                       ELSE Some(SigOfFields(
                                     ClassFields(head, Max(ClassSplits(head))),
                                     method_name, Some(return_type),
                                     IF parameter_list = <<>> THEN None
                                     ELSE Some(ParameterList(parameter_list))))

\* pattern2 on the stripped text: the fields, or None.  The
\* greedy first group leaves the shortest tail: the method name follows
\* the last "." that has a class before it.
Pattern2(text) ==
    LET dots == {m \in 4..(Len(text) - 1) :
                    /\ text[m] = "."
                    /\ IsNonSpace(SubSeq(text, m + 1, Len(text)))
                    /\ ClassSplits(SubSeq(text, 1, m - 1)) # {}}
    IN IF dots = {} THEN None
       ELSE LET m == Max(dots)
                head == SubSeq(text, 1, m - 1)
            IN Some(SigOfFields(ClassFields(head, Max(ClassSplits(head))),
                                SubSeq(text, m + 1, Len(text)), None, None))

\* m = re.match(pattern1, ...), and pattern2 is tried when m is None
FirstMatch(m, second) == IF m # None THEN m ELSE second
MatchPatterns(text, bracketed) == FirstMatch(Pattern1(text, bracketed), Pattern2(text))

\* MethodSignature.from_str: Some(signature), or None when it raises
\* InvalidSignatureException
MethodSignature_from_str(signature) ==
    MatchPatterns(strip(strip(signature, {" "}), {"<", ">"}), {Text_init, Text_clinit})

\* utils/parser.parse_signature: Some(fields), or None when it raises
\* InvalidSignatureException
parse_signature(signature) ==
    MatchPatterns(strip(strip(signature, {" "}), {"<", ">"}), {Text_init})

\* helper.get_method_type, lines 10-21: the type of a package name
TypeOfPackage(package_name) ==
    IF StartsWith(package_name, Pkg_java) THEN "JAVA"
    ELSE IF StartsWith(package_name, Pkg_android_support) THEN "ANDROID_SUPPORT"
    ELSE IF \/ StartsWith(package_name, Pkg_android)
            \/ StartsWith(package_name, Pkg_com_android) THEN "ANDROID"
    ELSE "APPLICATION"
TypeOfParsed(parsed) ==
    IF parsed = None THEN "InvalidSignatureException"
    ELSE TypeOfPackage(parsed[1].package_name)

\* helper.get_method_type on a text
get_method_type_of_text(signature) == TypeOfParsed(parse_signature(signature))

\* MethodSignature.__str__
MethodSignature_str(self) ==
    LET params == IF self.parameters # None /\ self.parameters[1] # <<>>
                  THEN join(self.parameters[1]) ELSE <<>>
    IN self.package_name \o <<".">> \o self.class_name
       \o (IF self.inner_class # None /\ self.inner_class[1] # <<>>
           THEN <<".">> \o self.inner_class[1] ELSE <<>>)
       \o <<":", " ">>
       \o (IF self.return_type = None THEN Text_None ELSE self.return_type[1])
       \o <<" ">> \o self.method_name \o <<"(">> \o params \o <<")">>
(***************************************************************************)
(* Stack-trace resolution: report_completion (pre_check.py)                *)
(*                                                                         *)
(* A frame is the sequence of the signatures its text holds: one element   *)
(* for a resolved frame, several for an ambiguous group ("<A>; <B>").  Two *)
(* frames have the same text iff they are the same sequence.               *)
(***************************************************************************)
MaxTraceLen == 3
MaxInvoke == 4

\* ";" in frame
IsAmbiguous(frame) == Len(frame) > 1
\* set([s.strip().strip("<>") for s in frame.split(";")])
Methods(frame) == Range(frame)
\* the trace holds an ambiguous group
HoldsGroup(trace) == \E i \in 1..Len(trace) : IsAmbiguous(trace[i])

\* The edges of the call-graph file that _get_cg_file_path selects for sig;
\* a java signature raises ValueError there and _get_call_methods answers
\* with two empty sets.
CgFileOf(sig) ==
    CASE get_method_type(sig) = "ANDROID" -> android_cg
      [] get_method_type(sig) \in {"ANDROID_SUPPORT", "APPLICATION"} -> apk_cg
      [] OTHER -> {}

get_called_methods(sig) == {e[2] : e \in {e \in CgFileOf(sig) : e[1] = sig}}
get_callers_method(sig) == {e[1] : e \in {e \in CgFileOf(sig) : e[2] = sig}}

\* The literal pattern table of complete_stack_trace_with_pattern.
SAFR == <<"sAFR3", "sAFR4", "sAFR2">>
SA == <<"sA1", "sA2">>
RE == <<"rE2", "rE0">>
RLU == <<"rLU_PI", "rLU_LL", "rLU_L">>
PatternKeys == {SAFR, SA, RE, RLU}
patterns(key) ==
    CASE key = SAFR -> (2 :> <<"sAFR3", "sAFR2">>)
      [] key = SA -> (2 :> <<"sA2", "sA1">>)
      [] key = RE -> (1 :> <<"rE2">>) @@ (2 :> <<"rE2", "rE0">>)
      [] key = RLU -> (2 :> <<"rLU_LL", "rLU_L">>)

\* _get_ambiguous_method_indexes: the maximal run of frames equal to t[i]
\* that holds position i.
RunStart(t, i) == Min({j \in 1..i : \A k \in j..i : t[k] = t[i]})
RunEnd(t, i) ==
    CHOOSE j \in i..Len(t) :
        /\ \A k \in i..j : t[k] = t[i]
        /\ (j = Len(t) \/ t[j + 1] # t[i])

PatternHit(t, i) ==
    /\ IsAmbiguous(t[i])
    /\ t[i] \in PatternKeys
    /\ (RunEnd(t, i) - RunStart(t, i) + 1) \in DOMAIN patterns(t[i])

\* renew_flag of complete_stack_trace_with_pattern
PatternRenew(t) == \E i \in 1..Len(t) : PatternHit(t, i)

\* A plausible slip: the table's entries are written to a copy and the
\* trace is left as it was, while renew_flag is still set.
PatternRewrite_copy(t) == t

\* the trace complete_stack_trace_with_pattern leaves behind
PatternRewrite(t) ==
    [i \in 1..Len(t) |->
        IF PatternHit(t, i)
        THEN <<patterns(t[i])[RunEnd(t, i) - RunStart(t, i) + 1]
                   [i - RunStart(t, i) + 1]>>
        ELSE t[i]]

\* complete_self_invoke_trace, lines 127-137: member m is linked to its
\* callee when it has exactly one callee and that callee is in the group.
NextMethodOf(methods) ==
    [m \in {m \in methods :
                /\ Cardinality(get_called_methods(m)) = 1
                /\ get_called_methods(m) \subseteq methods}
        |-> CHOOSE c \in get_called_methods(m) : TRUE]

\* lines 112-140: the reversed-trace positions (1-based) at which a run of
\* identical ambiguous groups starts and valid_count == len(methods) - 1.
SelfInvokeStarts(rev) ==
    {i \in 1..(Len(rev) - 1) :
        /\ rev[i] = rev[i + 1]
        /\ IsAmbiguous(rev[i])
        /\ Cardinality(DOMAIN NextMethodOf(Methods(rev[i])))
             = Cardinality(Methods(rev[i])) - 1}

\* a get_called_methods call is made for the members of the first run found
SelfInvokeQueries(rev) ==
    \E i \in 1..(Len(rev) - 1) : rev[i] = rev[i + 1] /\ IsAmbiguous(rev[i])

\* a call_func call is made for the first parsed frame followed by a group
CompleteQueries(t) ==
    \E i \in 1..(Len(t) - 1) : ~IsAmbiguous(t[i]) /\ IsAmbiguous(t[i + 1])

\* A plausible slip: both directions ask for the callees.
call_func_callees(name, sig) == get_called_methods(sig)

\* call_func of complete_stack_trace: get_called_methods or
\* get_callers_method, by name
call_func(name, sig) ==
    IF name = "get_called_methods" THEN get_called_methods(sig)
    ELSE get_callers_method(sig)

\* complete_stack_trace, lines 160-175: the first position whose frame
\* parses as one signature, whose successor is an ambiguous group and whose
\* call-graph neighbours meet the group in exactly one member.
CompleteHits(t, name) ==
    {i \in 1..(Len(t) - 1) :
        /\ ~IsAmbiguous(t[i])
        /\ IsAmbiguous(t[i + 1])
        /\ Cardinality(call_func(name, t[i][1]) \cap Methods(t[i + 1])) = 1}

\* A plausible slip: the parsed frame of the pair is overwritten.
complete_stack_trace_first_sig(t, name) ==
    LET i == Min(CompleteHits(t, name))
        common_methods == call_func(name, t[i][1]) \cap Methods(t[i + 1])
    IN [t EXCEPT ![i] = <<CHOOSE m \in common_methods : TRUE>>]

complete_stack_trace(t, name) ==
    LET i == Min(CompleteHits(t, name))
        common_methods == call_func(name, t[i][1]) \cap Methods(t[i + 1])
    IN [t EXCEPT ![i + 1] = <<CHOOSE m \in common_methods : TRUE>>]

(***************************************************************************)
(* Source locator (utils/java_parser.py)                                   *)
(*                                                                         *)
(* A source file is the set of its method_declaration nodes.  A node is    *)
(* recorded by what the filters read of it: its name, the text of its      *)
(* return-type node, the texts of its parameters' type nodes, the names of *)
(* the class_declaration nodes that enclose it (innermost first), the type *)
(* of its parent node, and the line comments that are children of that     *)
(* parent (for a generated anonymous class: "// from class: <name>", kept  *)
(* as the full class name it spells).  id stands for the node's source     *)
(* text.                                                                   *)
(***************************************************************************)
Decl(id, name, return_type, parameters, classes, parent, comments) ==
    [id |-> id, name |-> name, return_type |-> return_type,
     parameters |-> parameters, classes |-> classes, parent |-> parent,
     comments |-> comments]

AnonMain1 == <<Pkg_com_app, "Main", "1">>

d_m_int == Decl("void m(int)", Name_m, "void", <<"int">>, <<"Main">>, "class_body", <<>>)
d_m_long == Decl("void m(long)", Name_m, "void", <<"long">>, <<"Main">>, "class_body", <<>>)
d_n == Decl("void n()", Name_n, "void", <<>>, <<"Main">>, "class_body", <<>>)
d_inner_m_int ==
    Decl("Inner: void m(int)", Name_m, "void", <<"int">>, <<"Inner", "Main">>, "class_body", <<>>)
d_anon_m_int ==
    Decl("Main$1: void m(int)", Name_m, "void", <<"int">>, <<"Main">>, "class_body", <<AnonMain1>>)
d_base_m_int == Decl("Base: void m(int)", Name_m, "void", <<"int">>, <<"Base">>, "class_body", <<>>)
d_base_m_long == Decl("Base: void m(long)", Name_m, "void", <<"long">>, <<"Base">>, "class_body", <<>>)
d_x == Decl("void x()", <<"x">>, "void", <<>>, <<"View">>, "class_body", <<>>)

\* str.isdigit on a class-path segment
isdigit(segment) == segment \in {"0", "1", "2"}

\* _type_strip: type_str.split(".")[-1].split("$")[-1]
_type_strip(type_str) == Last(type_str)

\* _method_return_type_filter
_method_return_type_filter(methods, sig) ==
    IF sig.return_type = None THEN methods
    ELSE {m \in methods : m.return_type = _type_strip(sig.return_type[1])}

\* _methods_parameters_filter
_methods_parameters_filter(methods, sig) ==
    IF sig.parameters = None THEN methods
    ELSE LET parameters == [i \in 1..Len(sig.parameters[1]) |->
                               _type_strip(sig.parameters[1][i])]
         IN {m \in methods :
               /\ Len(m.parameters) = Len(parameters)
               /\ \A i \in 1..Len(parameters) : m.parameters[i] = parameters[i]}

\* _is_anonymous_class
_is_anonymous_class(sig) == isdigit(Last(class_list(sig)))

\* the anonymous-class filter examines the class bodies
AnonymousFilterApplies(sig) ==
    sig.inner_class # None /\ _is_anonymous_class(sig)

\* get_child(class_body, "line_comment") raises
\* MultipleChildrenFoundException on a body with several line comments
AnonymousFilterRaises(methods, sig) ==
    /\ AnonymousFilterApplies(sig)
    /\ \E m \in methods : m.parent = "class_body" /\ Len(m.comments) > 1

\* _anonymous_class_filter with _check_anonymous_class
_anonymous_class_filter(methods, sig) ==
    IF ~AnonymousFilterApplies(sig) THEN methods
    ELSE {m \in methods :
            /\ m.parent = "class_body"
            /\ Len(m.comments) = 1
            /\ m.comments[1] = full_class_name(sig)}

\* _class_name_filter, lines 444-450: the loop pops one segment per turn
\* while the signature (not the shortened list) is anonymous, so that an
\* anonymous signature ends with an empty class_list and any other keeps
\* the whole list.
FilterClassList(sig) ==
    IF _is_anonymous_class(sig) THEN <<>> ELSE class_list(sig)

\* find_ancestor_by_type(node, "class_declaration") applied i times from a
\* declaration: its i-th enclosing class declaration, None past the
\* outermost one.
find_ancestor_by_type(m, i) ==
    IF i <= Len(m.classes) THEN Some(m.classes[i]) ELSE None

\* _class_name_filter, lines 452-467: the enclosing class declarations,
\* innermost first, must spell the reversed class_list.
_class_name_filter(methods, sig) ==
    LET wanted == Reverse(FilterClassList(sig)) IN
    {m \in methods :
        \A i \in 1..Len(wanted) :
            /\ find_ancestor_by_type(m, i) # None
            /\ find_ancestor_by_type(m, i)[1] = wanted[i]}

\* A result of a lookup: the exception raised, or "ok" and the source text.
Raised(kind) == [kind |-> kind, code |-> None]
Returned(code) == [kind |-> "ok", code |-> Some(code)]

\* _filter_methods over the four filters, each skipped once the list is empty
FilteredMethods(captured, sig) ==
    LET f1 == _method_return_type_filter(captured, sig)
        f2 == IF f1 = {} THEN {} ELSE _methods_parameters_filter(f1, sig)
        f3 == IF f2 = {} THEN {} ELSE _anonymous_class_filter(f2, sig)
    IN IF f3 = {} THEN {} ELSE _class_name_filter(f3, sig)

\* A plausible slip: with several survivors the first is returned.
SurvivorsResult_pick_first(method) ==
    IF method = {} THEN Raised("NoMethodFoundCodeError")
    ELSE Returned((CHOOSE m \in method : TRUE).id)

\* _get_method_code_in_file, lines 310-318
SurvivorsResult(method) ==
    IF method = {} THEN Raised("NoMethodFoundCodeError")
    ELSE IF Cardinality(method) > 1 THEN Raised("MultipleMethodsCodeError")
    ELSE Returned((CHOOSE m \in method : TRUE).id)

\* _get_method_code_in_file; file is None when file_path does not exist
_get_method_code_in_file(file, sig) ==
    IF file = None THEN Raised("CodeFileNotFoundException")
    ELSE LET captured == {m \in file[1] : m.name = sig.method_name}
             f2 == _methods_parameters_filter(
                       _method_return_type_filter(captured, sig), sig)
         IN IF AnonymousFilterRaises(f2, sig)
            THEN Raised("MultipleChildrenFoundException")
            ELSE SurvivorsResult(FilteredMethods(captured, sig))

\* get_candidate_code, lines 49-58
HierarchyOf(cand) ==
    IF Len(cand.extend_hierarchy) = 0
    THEN <<ClassSig(cand.signature.package_name, cand.signature.class_name,
                    cand.signature.inner_class)>>
    ELSE cand.extend_hierarchy

\* get_candidate_code, lines 61-68
HierarchySignature(cand, class_signature) ==
    Sig(class_signature.package_name, class_signature.class_name,
        class_signature.inner_class, cand.signature.method_name,
        cand.signature.return_type, cand.signature.parameters)

FileAt(tree, path) == IF path \in DOMAIN tree THEN tree[path] ELSE None

\* get_candidate_code, lines 60-79, from the i-th class of the hierarchy
\* on: the result and the files looked up (tried), in order.
RECURSIVE CandidateCodeFrom(_, _, _, _)
CandidateCodeFrom(cand, hierarchy, i, tree) ==
    IF i > Len(hierarchy)
    THEN [result |-> Raised("NoMethodFoundCodeError"), tried |-> <<>>]
    ELSE LET sig == HierarchySignature(cand, hierarchy[i]) IN
         IF PackageType_get_package_type(sig) # "APPLICATION"
         THEN [result |-> Raised("ValueError"), tried |-> <<>>]
         ELSE LET r == _get_method_code_in_file(FileAt(tree, into_path(sig)), sig) IN
              IF r.kind = "NoMethodFoundCodeError"
              THEN LET rest == CandidateCodeFrom(cand, hierarchy, i + 1, tree)
                   IN [result |-> rest.result,
                       tried |-> <<into_path(sig)>> \o rest.tried]
              ELSE [result |-> r, tried |-> <<into_path(sig)>>]

\* A plausible slip: every retrieval failure moves on to the next class.
get_candidate_code_skip_all(cand, tree) ==
    LET h == HierarchyOf(cand)
        ok == {i \in 1..Len(h) :
                 /\ PackageType_get_package_type(HierarchySignature(cand, h[i]))
                      = "APPLICATION"
                 /\ _get_method_code_in_file(
                        FileAt(tree, into_path(HierarchySignature(cand, h[i]))),
                        HierarchySignature(cand, h[i])).kind = "ok"}
    IN [result |-> IF ok = {} THEN Raised("NoMethodFoundCodeError")
                   ELSE _get_method_code_in_file(
                            FileAt(tree, into_path(HierarchySignature(cand, h[Min(ok)]))),
                            HierarchySignature(cand, h[Min(ok)])),
        tried |-> [i \in 1..(IF ok = {} THEN Len(h) ELSE Min(ok)) |->
                      into_path(HierarchySignature(cand, h[i]))]]

\* get_candidate_code
get_candidate_code(cand, tree) ==
    CandidateCodeFrom(cand, HierarchyOf(cand), 1, tree)

\* get_framework_code; no modelled frame is of class ILocationManager, so
\* the rewrite of lines 110-123 does not apply.  The support tree and the
\* first existing framework directory are one tree keyed by the same paths.
get_framework_code(sig, tree) ==
    _get_method_code_in_file(FileAt(tree, into_path(sig)), sig)

\* The retrieval family that pre_check.py catches as MethodCodeException.
MethodCodeExceptions ==
    {"CodeFileNotFoundException", "MultipleMethodsCodeError",
     "NoMethodFoundCodeError", "ClassNotFoundException",
     "FieldNotFoundException", "MultipleClassesFoundCodeError"}

(***************************************************************************)
(* The stages of pre_check (pre_check.py)                                  *)
(***************************************************************************)
MaxCandidates == 2

\* The short name ("pkg.Class.method") that goes with a signature text: it
\* is determined by, and determines, the package, the class and the method.
ShortNameOf(id) ==
    <<SigRecord(id).package_name, SigRecord(id).class_name, SigRecord(id).method_name>>

\* MethodSignature.from_str on a short name
ShortRecord(name) == Sig(name[1], name[2], None, name[3], None, None)

\* The type get_method_type finds for a frame; parse_signature raises
\* InvalidSignatureException on the text of an ambiguous group.
FrameType(frame) ==
    IF IsAmbiguous(frame) THEN "InvalidSignatureException"
    ELSE get_method_type(frame[1])

\* _get_and_check_framework_stack, lines 268-282: the first zipped position
\* whose frame is not appended to framework_trace (0: there is none).
ScanStop(trace, short) ==
    LET n == IF Len(trace) < Len(short) THEN Len(trace) ELSE Len(short)
        stops == {i \in 1..n : FrameType(trace[i]) \notin {"ANDROID", "ANDROID_SUPPORT"}}
    IN IF stops = {} THEN 0 ELSE Min(stops)

\* A plausible slip: the divider frame is appended to framework_trace too.
_get_and_check_framework_stack_with_divider(trace, short) ==
    LET k == ScanStop(trace, short)
        raise(kind) == [kind |-> kind, framework_trace |-> <<>>,
                        framework_short_trace |-> <<>>]
    IN IF k = 0 THEN raise("InvalidFrameworkStackException")
       ELSE IF FrameType(trace[k]) = "InvalidSignatureException"
       THEN raise("InvalidSignatureException")
       ELSE IF FrameType(trace[k]) = "JAVA"
       THEN raise("InvalidFrameworkStackException")
       ELSE [kind |-> "ok", framework_trace |-> SubSeq(trace, 1, k),
             framework_short_trace |-> SubSeq(short, 1, k)]

\* A plausible slip: a java frame is appended like a framework frame.
_get_and_check_framework_stack_java_appended(trace, short) ==
    LET n == IF Len(trace) < Len(short) THEN Len(trace) ELSE Len(short)
        stops == {i \in 1..n :
                     FrameType(trace[i]) \notin {"ANDROID", "ANDROID_SUPPORT", "JAVA"}}
        k == IF stops = {} THEN 0 ELSE Min(stops)
        raise(kind) == [kind |-> kind, framework_trace |-> <<>>,
                        framework_short_trace |-> <<>>]
    IN IF k = 0 THEN raise("InvalidFrameworkStackException")
       ELSE IF FrameType(trace[k]) = "InvalidSignatureException"
       THEN raise("InvalidSignatureException")
       ELSE IF k = 1 THEN raise("InvalidFrameworkStackException")
       ELSE [kind |-> "ok", framework_trace |-> SubSeq(trace, 1, k - 1),
             framework_short_trace |-> SubSeq(short, 1, k - 1)]

\* _get_and_check_framework_stack
_get_and_check_framework_stack(trace, short) ==
    LET k == ScanStop(trace, short)
        raise(kind) == [kind |-> kind, framework_trace |-> <<>>,
                        framework_short_trace |-> <<>>]
    IN IF k = 0 THEN raise("InvalidFrameworkStackException")
       ELSE IF FrameType(trace[k]) = "InvalidSignatureException"
       THEN raise("InvalidSignatureException")
       ELSE IF FrameType(trace[k]) = "JAVA"
       THEN raise("InvalidFrameworkStackException")
       ELSE IF k = 1 THEN raise("InvalidFrameworkStackException")
       ELSE [kind |-> "ok", framework_trace |-> SubSeq(trace, 1, k - 1),
             framework_short_trace |-> SubSeq(short, 1, k - 1)]

\* The explanation-type tags of ReasonTypeLiteral.
KEY_VAR_TERMINAL == "Key Variable Related 1"
KEY_VAR_NON_TERMINAL == "Key Variable Related 2"
KEY_API_INVOKED == "Key API Related 1"
KEY_API_EXECUTED == "Key API Related 2 (Executed)"
KEY_VAR_MODIFIED_FIELD == "Key Variable Related 4"
NOT_OVERRIDE_METHOD == "Not Override Method 1"
NOT_OVERRIDE_METHOD_EXECUTED == "Not Override Method 2 (Executed)"
FRAMEWORK_RECALL == "Framework Recall"
KEY_VAR_3 == "Key Variable Related 3"
ReasonTypeLiteral ==
    {KEY_VAR_TERMINAL, KEY_VAR_NON_TERMINAL, KEY_API_INVOKED, KEY_API_EXECUTED,
     KEY_VAR_MODIFIED_FIELD, NOT_OVERRIDE_METHOD, NOT_OVERRIDE_METHOD_EXECUTED,
     FRAMEWORK_RECALL, KEY_VAR_3}

\* _find_terminal_api: the signature of the first raw candidate one of whose
\* reasons is flagged "M_app Is Terminate?", or None
_find_terminal_api(raw) ==
    LET flagged == {i \in 1..Len(raw) : raw[i].terminate} IN
    IF flagged = {} THEN None ELSE Some(raw[Min(flagged)].signature)

\* The "Explanation Info" sentence of a field-modified-then-passed reason,
\* in the format that _extract_var4_field_and_passed_method matches, and a
\* text that is not in that format.
Explanation_modified_field ==
    "Value of the 0 parameter (start from 0) in API a may be wrong and trigger crash. Method m modify the field variable <f>, which may influence the buggy parameter value."
Explanation_other == ""

\* _extract_var4_field_and_passed_method: (index, api, field), or None when
\* the pattern does not match
_extract_var4_field_and_passed_method(explanation_info) ==
    IF explanation_info = Explanation_modified_field
    THEN Some(<<0, "a", "<f>">>) ELSE None

\* _candidate_into_reason: the CandidateReason subclass built for a tag
ReasonVariant(reason_type) ==
    CASE reason_type = KEY_VAR_TERMINAL -> "KeyVarTerminalReason"
      [] reason_type = KEY_VAR_NON_TERMINAL -> "KeyVarNonTerminalReason"
      [] reason_type = KEY_API_INVOKED -> "KeyApiInvokedReason"
      [] reason_type = KEY_API_EXECUTED -> "KeyApiExecutedReason"
      [] reason_type = KEY_VAR_MODIFIED_FIELD -> "KeyVarModifiedFieldReason"
      [] reason_type = NOT_OVERRIDE_METHOD -> "NotOverrideMethodReason"
      [] reason_type = NOT_OVERRIDE_METHOD_EXECUTED -> "NotOverrideMethodExecutedReason"
      [] reason_type = FRAMEWORK_RECALL -> "FrameworkRecallReason"
      [] reason_type = KEY_VAR_3 -> "KeyVar3Reason"
      [] OTHER -> "none"

\* A plausible slip: the match statement has no raising default case.
ReasonFailure_default(raw_candidate, terminal_api) ==
    IF raw_candidate.reason_type = KEY_VAR_NON_TERMINAL /\ terminal_api = None
    THEN "NoTerminalAPIException"
    ELSE IF /\ raw_candidate.reason_type = KEY_VAR_MODIFIED_FIELD
            /\ _extract_var4_field_and_passed_method(raw_candidate.explanation_info) = None
    THEN "TypeError"
    ELSE "ok"

\* _candidate_into_reason: the exception it raises for a raw candidate
\* ("ok": it returns the reason of that tag).  Unpacking the None that
\* _extract_var4_field_and_passed_method returns is a TypeError.
ReasonFailure(raw_candidate, terminal_api) ==
    IF raw_candidate.reason_type \notin ReasonTypeLiteral THEN "NotImplementedError"
    ELSE IF raw_candidate.reason_type = KEY_VAR_NON_TERMINAL /\ terminal_api = None
    THEN "NoTerminalAPIException"
    ELSE IF /\ raw_candidate.reason_type = KEY_VAR_MODIFIED_FIELD
            /\ _extract_var4_field_and_passed_method(raw_candidate.explanation_info) = None
    THEN "TypeError"
    ELSE "ok"

\* pre_check, lines 489-501: one typed Candidate
CandidateOf(raw_candidate) ==
    [name |-> raw_candidate.name,
     signature |-> IF raw_candidate.signature # ""
                   THEN SigRecord(raw_candidate.signature)
                   ELSE ShortRecord(raw_candidate.name),
     extend_hierarchy |-> raw_candidate.extend_hierarchy,
     reason_type |-> raw_candidate.reason_type,
     reasons |-> ReasonVariant(raw_candidate.reason_type)]

\* _fix_candidate_signature for one candidate, lines 427-453: the frames
\* are parsed in order until the second mismatching frame (break) or the
\* end; parsing an ambiguous frame raises InvalidSignatureException.
FixOne(cand, trace, short) ==
    LET n == IF Len(trace) < Len(short) THEN Len(trace) ELSE Len(short)
        amb == {i \in 1..n : IsAmbiguous(trace[i])}
        first_amb == IF amb = {} THEN n + 1 ELSE Min(amb)
        mismatch == {i \in 1..(first_amb - 1) :
                        /\ short[i] = cand.name
                        /\ ~MethodSignature_eq(SigRecord(trace[i][1]), cand.signature)}
        same(kind, dup) == [kind |-> kind, signature |-> cand.signature,
                            duplicate |-> dup, fixed |-> 0]
    IN IF cand.reason_type # KEY_VAR_TERMINAL THEN same("ok", 0)
       ELSE IF Cardinality(mismatch) >= 2 THEN same("ok", 1)
       ELSE IF first_amb <= n THEN same("InvalidSignatureException", 0)
       ELSE IF Cardinality(mismatch) = 1
       THEN [kind |-> "ok",
             signature |-> SigRecord(trace[Min(mismatch)][1]),
             duplicate |-> 0, fixed |-> 1]
       ELSE same("ok", 0)

\* _fix_candidate_signature over candidates i..: the candidates as they are
\* left, the exception that stopped the loop ("ok": none) and the
\* increments of statistic.fixed_failed_duplicate and statistic.fixed_reports
RECURSIVE FixFrom(_, _, _, _)
FixFrom(cands, i, trace, short) ==
    IF i > Len(cands)
    THEN [kind |-> "ok", candidates |-> cands, duplicate |-> 0, fixed |-> 0]
    ELSE LET one == FixOne(cands[i], trace, short) IN
         IF one.kind # "ok"
         THEN [kind |-> one.kind, candidates |-> cands, duplicate |-> 0, fixed |-> 0]
         ELSE LET rest == FixFrom([cands EXCEPT ![i].signature = one.signature],
                                  i + 1, trace, short)
              IN [rest EXCEPT !.duplicate = @ + one.duplicate,
                              !.fixed = @ + one.fixed]

\* _fix_candidate_signature
_fix_candidate_signature(cands, trace, short) == FixFrom(cands, 1, trace, short)

\* _remove_useless_candidates
_remove_useless_candidates(cands) ==
    SelectSeq(cands, LAMBDA c : ~StartsWith(c.signature.method_name, Name_access))

\* _check_candidate_code_exist: what the lookup of one candidate leads to
CandidateCheck(cand, tree) ==
    LET kind == get_candidate_code(cand, tree).result.kind IN
    IF kind = "ok" THEN "keep"
    ELSE IF kind \in MethodCodeExceptions THEN "CandidateCodeNotFoundException"
    ELSE IF kind = "ValueError"
    THEN (IF cand.reason_type # NOT_OVERRIDE_METHOD THEN "remove" ELSE "keep")
    ELSE kind

\* A plausible slip: the not-overridden exemption is left out, so every
\* candidate whose lookup reaches a non-application class is removed.
_check_candidate_code_exist_no_exemption(cands, tree) ==
    LET kindOf(c) == get_candidate_code(c, tree).result.kind
        raising == {i \in 1..Len(cands) :
                       kindOf(cands[i]) \notin {"ok", "ValueError"}}
    IN IF raising # {}
       THEN [kind |-> CandidateCheck(cands[Min(raising)], tree), candidates |-> cands]
       ELSE [kind |-> "ok",
             candidates |-> SelectSeq(cands, LAMBDA c : kindOf(c) = "ok")]

\* A plausible slip: the candidate is dropped on a retrieval failure too.
_check_candidate_code_exist_drop(cands, tree) ==
    [kind |-> "ok",
     candidates |-> SelectSeq(cands, LAMBDA c : CandidateCheck(c, tree) = "keep")]

\* _check_candidate_code_exist: the exception of the first candidate whose
\* lookup raises one that is not handled, else the list without the
\* removed candidates
_check_candidate_code_exist(cands, tree) ==
    LET raising == {i \in 1..Len(cands) :
                       CandidateCheck(cands[i], tree) \notin {"keep", "remove"}}
    IN IF raising # {}
       THEN [kind |-> CandidateCheck(cands[Min(raising)], tree), candidates |-> cands]
       ELSE [kind |-> "ok",
             candidates |-> SelectSeq(cands, LAMBDA c : CandidateCheck(c, tree) = "keep")]

\* _check_framework_code_exist: "ok" or the exception of the first frame of
\* framework_trace whose lookup raises
_check_framework_code_exist(fw_trace, tree) ==
    LET kindOf(i) == get_framework_code(SigRecord(fw_trace[i][1]), tree).kind
        raising == {i \in 1..Len(fw_trace) : kindOf(i) # "ok"}
    IN IF raising = {} THEN "ok"
       ELSE IF kindOf(Min(raising)) \in MethodCodeExceptions
       THEN "FrameworkCodeNotFoundException"
       ELSE kindOf(Min(raising))

\* A plausible slip: an empty candidate list is accepted.
_check_buggy_method_candidates_exist_vacuous(cands, buggy_method) ==
    IF Len(cands) = 0 \/ \E i \in 1..Len(cands) :
                            MethodSignature_eq(cands[i].signature, buggy_method)
    THEN "ok" ELSE "NoBuggyMethodCandidatesException"

\* _check_buggy_method_candidates_exist
_check_buggy_method_candidates_exist(cands, buggy_method) ==
    IF \E i \in 1..Len(cands) : MethodSignature_eq(cands[i].signature, buggy_method)
    THEN "ok" ELSE "NoBuggyMethodCandidatesException"

(***************************************************************************)
(* Values of the variables a specification does not use.                   *)
(***************************************************************************)
LoopIdle ==
    /\ iteration = 0
    /\ input_trace = <<>>

ObjectsIdle ==
    /\ threads = <<>>
    /\ run_statistic = <<>>
    /\ base_candidates = <<>>
    /\ extra_candidates = <<>>

OtherIdle == ObjectsIdle /\ LoopIdle

EqIdle ==
    /\ self_sig = None
    /\ other_sig = None
    /\ eq_result = FALSE
    /\ signature_text = None
    /\ str_result = None
    /\ package_type = None
    /\ method_type = None

ResolveIdle ==
    /\ stack_trace = <<>>
    /\ android_cg = {}
    /\ apk_cg = {}
    /\ run = <<0, 0>>
    /\ next_method = <<>>
    /\ invoke_list = <<>>
    /\ cg_queried = FALSE
    /\ completed_trace = None

LocatorIdle ==
    /\ method_signature = None
    /\ code_file = None
    /\ candidate = None
    /\ app_tree = <<>>
    /\ framework_tree = <<>>
    /\ code_result = None
    /\ file_read = FALSE
    /\ tried = <<>>

RecordIdle ==
    /\ exception_info = "present"
    /\ stack_trace_short_api = <<>>
    /\ raw_candidates = <<>>
    /\ labeled_buggy_method = ""
    /\ framework_trace = <<>>
    /\ framework_short_trace = <<>>
    /\ framework_entry_api = None
    /\ report_info = None
    /\ statistic = [fixed_failed_duplicate |-> 0, fixed_reports |-> 0]
    /\ crash_reports = <<>>
    /\ report_index = 0

PipelineIdle == RecordIdle /\ OtherIdle

(***************************************************************************)
(* MethodSignature.__eq__ on every pair of signatures                      *)
(***************************************************************************)
EqInit ==
    /\ pc = "eq_call"
    /\ failure = "none"
    /\ self_sig \in MethodSignature
    /\ other_sig \in MethodSignature
    /\ eq_result = FALSE
    /\ signature_text = None
    /\ str_result = None
    /\ package_type = None
    /\ method_type = None
    /\ ResolveIdle
    /\ LocatorIdle
    /\ PipelineIdle

EqCall ==
    /\ pc = "eq_call"
    /\ eq_result' = MethodSignature_eq(self_sig, other_sig)
    /\ pc' = "eq_done"
    /\ UNCHANGED <<self_sig, other_sig, signature_text, str_result, failure>>
    /\ UNCHANGED <<package_type, method_type>>
    /\ UNCHANGED <<resolveVars, locatorVars, pipelineVars>>

EqNext == EqCall

EqSpec == EqInit /\ [][EqNext]_vars

(***************************************************************************)
(* The resolution loop of report_completion, lines 227-247, one action per *)
(* strategy; complete_self_invoke_trace is split at its inner while loop   *)
(* (lines 147-148), the only place of the loop that can run forever.       *)
(***************************************************************************)
ResolveFrames == {<<"X">>, <<"Y">>, <<"A", "B", "C">>, RE}
Traces == UNION {[1..n -> ResolveFrames] : n \in 0..MaxTraceLen}
AndroidEdges ==
    {<<"A", "B">>, <<"B", "C">>, <<"B", "B">>, <<"A", "D">>,
     <<"X", "A">>, <<"X", "B">>, <<"A", "X">>}
ApkEdges == {<<"Y", "A">>, <<"Y", "C">>}

ResolveInit ==
    /\ pc = "pattern"
    /\ failure = "none"
    /\ stack_trace \in Traces
    /\ android_cg \in SUBSET AndroidEdges
    /\ apk_cg \in SUBSET ApkEdges
    /\ run = <<0, 0>>
    /\ next_method = <<>>
    /\ invoke_list = <<>>
    /\ cg_queried = FALSE
    /\ completed_trace = None
    /\ EqIdle
    /\ LocatorIdle
    /\ PipelineIdle

\* lines 228-229
PatternStrategy ==
    /\ pc = "pattern"
    /\ IF PatternRenew(stack_trace)
       THEN /\ stack_trace' = PatternRewrite(stack_trace)
            /\ pc' = "pattern"
       ELSE /\ pc' = "self_invoke"
            /\ UNCHANGED stack_trace
    /\ UNCHANGED <<cgVars, completed_trace, selfInvokeVars, cg_queried, failure>>
    /\ UNCHANGED <<eqVars, locatorVars, pipelineVars>>

\* lines 231, 111-145: the scan for a qualifying run and the choice of the
\* chain root.  The root is the first member, in the iteration order of a
\* Python set of strings, that is nobody's next_method; that order depends
\* on the process's hash seed, so any such member can come first.
SelfInvokeScan ==
    /\ pc = "self_invoke"
    /\ LET rev == Reverse(stack_trace)
           starts == SelfInvokeStarts(rev)
       IN /\ cg_queried' = (cg_queried \/ SelfInvokeQueries(rev))
          /\ IF starts = {}
             THEN /\ pc' = "forward"
                  /\ UNCHANGED selfInvokeVars
             ELSE LET index == Min(starts)
                      methods == Methods(rev[index])
                      nm == NextMethodOf(methods)
                  IN \E root \in {m \in methods : m \notin Range(nm)} :
                        /\ run' = <<index, RunEnd(rev, index)>>
                        /\ next_method' = nm
                        /\ invoke_list' = <<root>>
                        /\ pc' = "chain_walk"
    /\ UNCHANGED <<stack_trace, cgVars, completed_trace, failure>>
    /\ UNCHANGED <<eqVars, locatorVars, pipelineVars>>

\* lines 147-148: one turn of "while invoke_list[-1] in next_method".
\* invoke_list is kept whole up to MaxInvoke elements, which is more than a
\* walk that ends can reach (it visits each member at most once); beyond
\* that only its last MaxInvoke elements are kept: the loop reads nothing
\* but the last one.
ChainWalk ==
    /\ pc = "chain_walk"
    /\ LET last == invoke_list[Len(invoke_list)] IN
       IF last \in DOMAIN next_method
       THEN /\ invoke_list' =
                  IF Len(invoke_list) < MaxInvoke
                  THEN Append(invoke_list, next_method[last])
                  ELSE Append(Tail(invoke_list), next_method[last])
            /\ pc' = "chain_walk"
       ELSE /\ pc' = "fill"
            /\ UNCHANGED invoke_list
    /\ UNCHANGED <<stack_trace, cgVars, completed_trace, run, next_method, cg_queried, failure>>
    /\ UNCHANGED <<eqVars, locatorVars, pipelineVars>>

\* lines 150-153 and 232-234: the run is filled from its most recent frame
\* backwards with invoke_list.pop(); pop on an empty list raises IndexError.
SelfInvokeFill ==
    /\ pc = "fill"
    /\ LET rev == Reverse(stack_trace)
           index == run[1]
           end_index == run[2]
           n == Len(invoke_list)
       IN IF end_index - index + 1 > n
          THEN /\ failure' = "IndexError"
               /\ pc' = "failed"
               /\ UNCHANGED stack_trace
          ELSE /\ stack_trace' = Reverse(
                     [i \in 1..Len(rev) |->
                        IF index <= i /\ i <= end_index
                        THEN <<invoke_list[n - (end_index - i)]>>
                        ELSE rev[i]])
               /\ pc' = "pattern"
               /\ UNCHANGED failure
    /\ UNCHANGED <<cgVars, completed_trace, selfInvokeVars, cg_queried>>
    /\ UNCHANGED <<eqVars, locatorVars, pipelineVars>>

\* lines 236-241: caller-to-callee, on the reversed trace
ForwardStrategy ==
    /\ pc = "forward"
    /\ LET rev == Reverse(stack_trace) IN
       /\ cg_queried' = (cg_queried \/ CompleteQueries(rev))
       /\ IF CompleteHits(rev, "get_called_methods") # {}
          THEN /\ stack_trace' = Reverse(complete_stack_trace(rev, "get_called_methods"))
               /\ pc' = "pattern"
          ELSE /\ pc' = "backward"
               /\ UNCHANGED stack_trace
    /\ UNCHANGED <<cgVars, completed_trace, selfInvokeVars, failure>>
    /\ UNCHANGED <<eqVars, locatorVars, pipelineVars>>

\* A plausible slip: the loop is left after the callee-to-caller rewrite.
AfterBackward_break(rewritten) == "resolved"

\* lines 242-247: "continue" after a callee-to-caller rewrite, "break" when
\* no strategy has rewritten the trace
AfterBackward(rewritten) == IF rewritten THEN "pattern" ELSE "resolved"

\* lines 242-247: callee-to-caller, then the break
BackwardStrategy ==
    /\ pc = "backward"
    /\ cg_queried' = (cg_queried \/ CompleteQueries(stack_trace))
    /\ IF CompleteHits(stack_trace, "get_callers_method") # {}
       THEN /\ stack_trace' = complete_stack_trace(stack_trace, "get_callers_method")
            /\ pc' = AfterBackward(TRUE)
       ELSE /\ pc' = AfterBackward(FALSE)
            /\ UNCHANGED stack_trace
    /\ UNCHANGED <<cgVars, completed_trace, selfInvokeVars, failure>>
    /\ UNCHANGED <<eqVars, locatorVars, pipelineVars>>

ResolveNext ==
    \/ PatternStrategy
    \/ SelfInvokeScan
    \/ ChainWalk
    \/ SelfInvokeFill
    \/ ForwardStrategy
    \/ BackwardStrategy

ResolveSpec == ResolveInit /\ [][ResolveNext]_vars

\* The inputs on which termination is checked: every trace, with the call
\* graphs over the edges between the members of the group <A>; <B>; <C>
\* (and one edge that leaves the group).
SelfInvokeEdges == {<<"A", "B">>, <<"B", "C">>, <<"B", "B">>, <<"A", "D">>}
FairResolveInit ==
    /\ ResolveInit
    /\ android_cg \subseteq SelfInvokeEdges
    /\ apk_cg = {}

\* The interpreter keeps executing the loop: a step that can be taken is
\* taken.
FairResolveSpec ==
    FairResolveInit /\ [][ResolveNext]_vars /\ WF_vars(ResolveNext)


\* report_completion called again on the record it has written (line 249),
\* with the same call-graph files: the locals of the call are fresh.
RerunEdges ==
    {<<"A", "B">>, <<"B", "C">>, <<"X", "A">>, <<"A", "X">>, <<"B", "A">>}
RerunInit ==
    /\ pc = "pattern"
    /\ failure = "none"
    /\ stack_trace \in Traces
    /\ android_cg \in SUBSET RerunEdges
    /\ apk_cg \in SUBSET ApkEdges
    /\ run = <<0, 0>>
    /\ next_method = <<>>
    /\ invoke_list = <<>>
    /\ cg_queried = FALSE
    /\ completed_trace = None
    /\ EqIdle
    /\ LocatorIdle
    /\ PipelineIdle

RunAgain ==
    /\ pc = "resolved"
    /\ completed_trace = None
    /\ completed_trace' = Some(stack_trace)
    /\ run' = <<0, 0>>
    /\ next_method' = <<>>
    /\ invoke_list' = <<>>
    /\ pc' = "pattern"
    /\ UNCHANGED <<stack_trace, cgVars, cg_queried, failure>>
    /\ UNCHANGED <<eqVars, locatorVars, pipelineVars>>

RerunNext == ResolveNext \/ RunAgain

RerunSpec == RerunInit /\ [][RerunNext]_vars
(***************************************************************************)
(* _get_method_code_in_file on every file over a set of declarations and   *)
(* every query signature of class com.app.Main                             *)
(***************************************************************************)
d_anon_two_comments ==
    Decl("Main$2: void m(int)", Name_m, "void", <<"int">>, <<"Main">>,
         "class_body", <<AnonMain1, <<Pkg_com_app, "Main", "2">>>>)
LocatorDecls ==
    {d_m_int, d_m_long, d_n, d_inner_m_int, d_anon_m_int, d_anon_two_comments}
LocatorFiles == {None} \cup {Some(f) : f \in SUBSET LocatorDecls}
LocatorQueries ==
    [package_name : {Pkg_com_app}, class_name : {"Main"},
     inner_class : {None, Some(<<"Inner">>), Some(<<"1">>)},
     method_name : {Name_m, Name_n},
     return_type : {None, Some(Type_void), Some(Type_int)},
     parameters : {None, Some(<<>>), Some(<<Type_int>>), Some(<<Type_long>>)}]

LocatorInit ==
    /\ pc = "locate"
    /\ failure = "none"
    /\ method_signature \in {Some(q) : q \in LocatorQueries}
    /\ code_file \in LocatorFiles
    /\ candidate = None
    /\ app_tree = <<>>
    /\ framework_tree = <<>>
    /\ code_result = None
    /\ file_read = FALSE
    /\ tried = <<>>
    /\ EqIdle
    /\ ResolveIdle
    /\ PipelineIdle

GetMethodCodeInFile ==
    /\ pc = "locate"
    /\ code_result' = Some(_get_method_code_in_file(code_file, method_signature[1]))
    /\ file_read' = TRUE
    /\ pc' = "located"
    /\ UNCHANGED <<method_signature, code_file, candidate, app_tree,
                   framework_tree, tried, failure>>
    /\ UNCHANGED <<eqVars, resolveVars, pipelineVars>>

LocatorNext == GetMethodCodeInFile

LocatorSpec == LocatorInit /\ [][LocatorNext]_vars

(***************************************************************************)
(* get_candidate_code on candidates with a hierarchy of up to MaxHierarchy *)
(* classes, over application trees that hold, or lack, the files of        *)
(* com.app.Main and com.app.Base                                           *)
(***************************************************************************)
MaxHierarchy == 2

Class_Main == ClassSig(Pkg_com_app, "Main", None)
Class_Base == ClassSig(Pkg_com_app, "Base", None)
Class_Activity == ClassSig(Pkg_android_app, "Activity", None)
Path_Main == <<Pkg_com_app, "Main">>
Path_Base == <<Pkg_com_app, "Base">>

Hierarchies ==
    UNION {[1..n -> {Class_Main, Class_Base, Class_Activity}] : n \in 0..MaxHierarchy}
HierarchyCandidates ==
    {[name |-> ShortNameOf(s), signature |-> SigRecord(s),
      extend_hierarchy |-> h, reason_type |-> KEY_API_INVOKED,
      reasons |-> ReasonVariant(KEY_API_INVOKED)] :
        s \in {"Y", "Ys", "Z"}, h \in Hierarchies}
MainFiles == {{d_m_int}, {d_m_int, d_m_long}, {d_n}}
BaseFiles == {{d_base_m_int}, {d_base_m_int, d_base_m_long}, {}}
\* a tree maps the paths of its files to their declarations
TreeOf(main, base) ==
    [p \in (IF main = None THEN {} ELSE {Path_Main})
             \cup (IF base = None THEN {} ELSE {Path_Base}) |->
        IF p = Path_Main THEN main ELSE base]
HierarchyTrees ==
    {TreeOf(main, base) :
        main \in {None} \cup {Some(f) : f \in MainFiles},
        base \in {None} \cup {Some(f) : f \in BaseFiles}}

HierarchyInit ==
    /\ pc = "candidate_code"
    /\ failure = "none"
    /\ candidate \in {Some(c) : c \in HierarchyCandidates}
    /\ app_tree \in HierarchyTrees
    /\ method_signature = None
    /\ code_file = None
    /\ framework_tree = <<>>
    /\ code_result = None
    /\ file_read = FALSE
    /\ tried = <<>>
    /\ EqIdle
    /\ ResolveIdle
    /\ PipelineIdle

GetCandidateCode ==
    /\ pc = "candidate_code"
    /\ LET r == get_candidate_code(candidate[1], app_tree) IN
       /\ code_result' = Some(r.result)
       /\ tried' = r.tried
       /\ file_read' = (r.tried # <<>>)
    /\ pc' = "candidate_code_done"
    /\ UNCHANGED <<method_signature, code_file, candidate, app_tree,
                   framework_tree, failure>>
    /\ UNCHANGED <<eqVars, resolveVars, pipelineVars>>

HierarchyNext == GetCandidateCode

HierarchySpec == HierarchyInit /\ [][HierarchyNext]_vars

(***************************************************************************)
(* Boundary classification: pre_check, lines 461-469, on every trace of    *)
(* framework, support, library and application frames and groups, with a   *)
(* short-name list of the same length or one shorter (zip stops at the     *)
(* shorter list).                                                          *)
(***************************************************************************)
BoundaryFrames == {<<"X">>, <<"S">>, <<"J">>, <<"Y">>, <<"A", "B", "C">>}
BoundaryTraces == UNION {[1..n -> BoundaryFrames] : n \in 0..MaxTraceLen}
\* the short names that go with the frames of a trace
ShortTraceOf(trace) == [i \in 1..Len(trace) |-> ShortNameOf(trace[i][1])]

BoundaryInit ==
    /\ pc = "resolved"
    /\ failure = "none"
    /\ stack_trace \in BoundaryTraces
    /\ stack_trace_short_api \in
         {ShortTraceOf(stack_trace),
          SubSeq(ShortTraceOf(stack_trace), 1, Len(stack_trace) - 1)}
    /\ android_cg = {}
    /\ apk_cg = {}
    /\ run = <<0, 0>>
    /\ next_method = <<>>
    /\ invoke_list = <<>>
    /\ cg_queried = FALSE
    /\ completed_trace = None
    /\ exception_info = "present"
    /\ raw_candidates = <<>>
    /\ labeled_buggy_method = ""
    /\ framework_trace = <<>>
    /\ framework_short_trace = <<>>
    /\ framework_entry_api = None
    /\ report_info = None
    /\ statistic = [fixed_failed_duplicate |-> 0, fixed_reports |-> 0]
    /\ crash_reports = <<>>
    /\ report_index = 0
    /\ OtherIdle
    /\ EqIdle
    /\ LocatorIdle

\* pre_check, lines 461-469
BoundaryClassify ==
    /\ pc = "resolved"
    /\ LET r == _get_and_check_framework_stack(stack_trace, stack_trace_short_api) IN
       IF r.kind = "ok"
       THEN /\ framework_trace' = r.framework_trace
            /\ framework_short_trace' = r.framework_short_trace
            /\ framework_entry_api' = Some(Last(r.framework_trace))
            /\ pc' = "classified"
            /\ UNCHANGED failure
       ELSE /\ failure' = r.kind
            /\ pc' = "failed"
            /\ UNCHANGED boundaryVars
    /\ UNCHANGED <<exception_info, stack_trace_short_api, raw_candidates,
                   labeled_buggy_method, report_info, statistic,
                   crash_reports, report_index, otherVars>>
    /\ UNCHANGED <<eqVars, resolveVars, locatorVars>>

BoundaryNext == BoundaryClassify

BoundarySpec == BoundaryInit /\ [][BoundaryNext]_vars

(***************************************************************************)
(* pre_check, one action per stage.  The raw record's candidate section    *)
(* and label, and the source trees, are read by the stage that first reads *)
(* them: until then they hold the idle value.                              *)
(***************************************************************************)
PreCheckFrames == {<<"X">>, <<"Y">>, <<"Y2">>, <<"A", "B", "C">>}
PreCheckTraces == UNION {[1..n -> PreCheckFrames] : n \in 1..MaxTraceLen}
\* The framework call graph is empty or holds these edges; it is queried
\* only for a trace that holds a group, and is left empty for the others.
PreCheckAndroidEdges == {<<"C", "X">>, <<"A", "B">>, <<"B", "C">>}

\* One entry of "Buggy Method Candidates"; terminate is the
\* "M_app Is Terminate?" flag of its reason.
RawCandidate(name, signature, extend_hierarchy, reason_type) ==
    [name |-> name, signature |-> signature,
     extend_hierarchy |-> extend_hierarchy, reason_type |-> reason_type,
     terminate |-> (reason_type = KEY_VAR_TERMINAL),
     explanation_info |-> Explanation_other]
RawCandidateEntries ==
    {RawCandidate(ShortNameOf("Y"), "Y", <<>>, KEY_VAR_TERMINAL),
     RawCandidate(ShortNameOf("Y"), "", <<>>, KEY_VAR_NON_TERMINAL),
     RawCandidate(ShortNameOf("Y"), "Y", <<Class_Main, Class_Activity>>,
                  NOT_OVERRIDE_METHOD),
     RawCandidate(ShortNameOf("Z"), "Z", <<Class_Main, Class_Activity>>,
                  NOT_OVERRIDE_METHOD_EXECUTED),
     RawCandidate(ShortNameOf("Z"), "Z", <<Class_Activity>>, KEY_API_INVOKED),
     RawCandidate(ShortNameOf("Acc"), "Acc", <<>>, NOT_OVERRIDE_METHOD)}
RawCandidateLists ==
    UNION {[1..n -> RawCandidateEntries] : n \in 0..MaxCandidates}
BuggyLabels == {"Y", "Z"}
AppTrees ==
    {TreeOf(main, None) :
        main \in {None, Some({d_m_int, d_n}), Some({d_n}),
                  Some({d_m_int, d_m_long, d_n})}}
Path_View == <<Pkg_android_view, "View">>
FrameworkTrees == {<<>>, [p \in {Path_View} |-> Some({d_x})]}

\* The records with an empty "Exception Info" entry are explored for the
\* traces of at most this many frames.
MaxEmptyInfoTrace == 2

PreCheckInit ==
    /\ pc = "start"
    /\ failure = "none"
    /\ stack_trace \in PreCheckTraces
    /\ exception_info \in
          (IF Len(stack_trace) <= MaxEmptyInfoTrace
           THEN {"present", "no_section", "no_entry", "empty"}
           ELSE {"present", "no_section", "no_entry"})
    /\ stack_trace_short_api = ShortTraceOf(stack_trace)
    /\ android_cg \in (IF HoldsGroup(stack_trace)
                       THEN {{}, PreCheckAndroidEdges} ELSE {{}})
    /\ apk_cg = {}
    /\ run = <<0, 0>>
    /\ next_method = <<>>
    /\ invoke_list = <<>>
    /\ cg_queried = FALSE
    /\ completed_trace = None
    /\ raw_candidates = <<>>
    /\ labeled_buggy_method = ""
    /\ framework_trace = <<>>
    /\ framework_short_trace = <<>>
    /\ framework_entry_api = None
    /\ report_info = None
    /\ statistic = [fixed_failed_duplicate |-> 0, fixed_reports |-> 0]
    /\ crash_reports = <<>>
    /\ report_index = 0
    /\ OtherIdle
    /\ EqIdle
    /\ LocatorIdle

\* pre_check, lines 457-459, and report_completion, lines 86-88:
\* _get_android_version subscripts the exception-info section and entry
\* (KeyError when one is missing; an empty entry is subscripted without
\* error).  _check_exception_info_exist is not called.
PreCheckStart ==
    /\ pc = "start"
    /\ IF exception_info \in {"no_section", "no_entry"}
       THEN /\ failure' = "KeyError"
            /\ pc' = "failed"
       ELSE /\ pc' = "pattern"
            /\ UNCHANGED failure
    /\ UNCHANGED <<eqVars, resolveVars, locatorVars, pipelineVars>>

\* pre_check, lines 470-510, on a record whose candidate section is one of
\* lists
BuildCandidatesFrom(lists) ==
    /\ pc = "classified"
    /\ \E raw \in lists, label \in BuggyLabels :
          LET terminal_api == _find_terminal_api(raw)
              failing == {i \in 1..Len(raw) : ReasonFailure(raw[i], terminal_api) # "ok"}
          IN /\ raw_candidates' = raw
             /\ labeled_buggy_method' = label
             /\ IF failing # {}
                THEN /\ failure' = ReasonFailure(raw[Min(failing)], terminal_api)
                     /\ pc' = "failed"
                     /\ UNCHANGED report_info
                ELSE /\ report_info' =
                          Some([candidates |-> [i \in 1..Len(raw) |-> CandidateOf(raw[i])],
                                buggy_method |-> SigRecord(label)])
                     /\ pc' = "built"
                     /\ UNCHANGED failure
    /\ UNCHANGED <<exception_info, stack_trace_short_api, boundaryVars, statistic,
                   crash_reports, report_index, otherVars>>
    /\ UNCHANGED <<eqVars, resolveVars, locatorVars>>

BuildCandidates == BuildCandidatesFrom(RawCandidateLists)

\* pre_check, line 512
FixCandidateSignature ==
    /\ pc = "built"
    /\ LET r == _fix_candidate_signature(report_info[1].candidates, stack_trace,
                                         stack_trace_short_api)
       IN /\ report_info' = Some([report_info[1] EXCEPT !.candidates = r.candidates])
          /\ statistic' =
                [fixed_failed_duplicate |-> statistic.fixed_failed_duplicate + r.duplicate,
                 fixed_reports |-> statistic.fixed_reports + r.fixed]
          /\ IF r.kind = "ok"
             THEN pc' = "corrected" /\ UNCHANGED failure
             ELSE pc' = "failed" /\ failure' = r.kind
    /\ UNCHANGED <<rawVars, boundaryVars>>
    /\ UNCHANGED <<eqVars, resolveVars, locatorVars>>

\* pre_check, line 513
RemoveUselessCandidates ==
    /\ pc = "corrected"
    /\ report_info' =
          Some([report_info[1] EXCEPT
                   !.candidates = _remove_useless_candidates(report_info[1].candidates)])
    /\ pc' = "pruned"
    /\ UNCHANGED <<rawVars, boundaryVars, statistic, failure>>
    /\ UNCHANGED <<eqVars, resolveVars, locatorVars>>

\* pre_check, line 514
CheckCandidateCodeExist ==
    /\ pc = "pruned"
    /\ \E tree \in AppTrees :
          LET cands == report_info[1].candidates
              r == _check_candidate_code_exist(cands, tree)
              raising == {i \in 1..Len(cands) :
                             CandidateCheck(cands[i], tree) \notin {"keep", "remove"}}
              looked == IF raising = {} THEN Len(cands) ELSE Min(raising)
          IN /\ app_tree' = tree
             /\ file_read' =
                   (file_read \/ \E i \in 1..looked :
                                    get_candidate_code(cands[i], tree).tried # <<>>)
             /\ IF r.kind = "ok"
                THEN /\ report_info' =
                          Some([report_info[1] EXCEPT !.candidates = r.candidates])
                     /\ pc' = "candidates_verified"
                     /\ UNCHANGED failure
                ELSE /\ failure' = r.kind
                     /\ pc' = "failed"
                     /\ UNCHANGED report_info
    /\ UNCHANGED <<method_signature, code_file, candidate, framework_tree,
                   code_result, tried>>
    /\ UNCHANGED <<rawVars, boundaryVars, statistic>>
    /\ UNCHANGED <<eqVars, resolveVars>>

\* pre_check, line 515
CheckFrameworkCodeExist ==
    /\ pc = "candidates_verified"
    /\ \E tree \in FrameworkTrees :
          LET kind == _check_framework_code_exist(framework_trace, tree) IN
          /\ framework_tree' = tree
          /\ file_read' = TRUE
          /\ IF kind = "ok"
             THEN pc' = "framework_verified" /\ UNCHANGED failure
             ELSE pc' = "failed" /\ failure' = kind
    /\ UNCHANGED <<method_signature, code_file, candidate, app_tree,
                   code_result, tried>>
    /\ UNCHANGED pipelineVars
    /\ UNCHANGED <<eqVars, resolveVars>>

\* pre_check, lines 516-518
CheckBuggyMethodCandidatesExist ==
    /\ pc = "framework_verified"
    /\ LET kind == _check_buggy_method_candidates_exist(
                       report_info[1].candidates, report_info[1].buggy_method)
       IN IF kind = "ok"
          THEN pc' = "done" /\ UNCHANGED failure
          ELSE pc' = "failed" /\ failure' = kind
    /\ UNCHANGED <<eqVars, resolveVars, locatorVars, pipelineVars>>

PreCheckNext ==
    \/ PreCheckStart
    \/ PatternStrategy
    \/ SelfInvokeScan
    \/ ChainWalk
    \/ SelfInvokeFill
    \/ ForwardStrategy
    \/ BackwardStrategy
    \/ BoundaryClassify
    \/ BuildCandidates
    \/ FixCandidateSignature
    \/ RemoveUselessCandidates
    \/ CheckCandidateCodeExist
    \/ CheckFrameworkCodeExist
    \/ CheckBuggyMethodCandidatesExist

PreCheckSpec == PreCheckInit /\ [][PreCheckNext]_vars

(***************************************************************************)
(* _fix_candidate_signature on the reports that reach it: the trace has    *)
(* passed the boundary detection and every raw candidate has a reason.     *)
(***************************************************************************)
MaxFixTrace == 4

FixTraces ==
    {t \in UNION {[1..n -> PreCheckFrames] : n \in 2..MaxFixTrace} :
        _get_and_check_framework_stack(t, ShortTraceOf(t)).kind = "ok"}
FixEntries ==
    {RawCandidate(ShortNameOf("Y"), "Y", <<>>, KEY_VAR_TERMINAL),
     RawCandidate(ShortNameOf("Y"), "Y2", <<>>, KEY_VAR_TERMINAL),
     RawCandidate(ShortNameOf("Y"), "", <<>>, KEY_VAR_NON_TERMINAL),
     RawCandidate(ShortNameOf("Y"), "Y", <<>>, KEY_API_INVOKED)}
FixCandidateLists ==
    {raw \in UNION {[1..n -> FixEntries] : n \in 0..MaxCandidates} :
        \A i \in 1..Len(raw) : ReasonFailure(raw[i], _find_terminal_api(raw)) = "ok"}

\* statistic is a module-level object: its counters hold what the reports
\* handled before this one left there.
FixInit ==
    /\ pc = "built"
    /\ failure = "none"
    /\ exception_info = "present"
    /\ stack_trace \in FixTraces
    /\ stack_trace_short_api = ShortTraceOf(stack_trace)
    /\ android_cg = {}
    /\ apk_cg = {}
    /\ run = <<0, 0>>
    /\ next_method = <<>>
    /\ invoke_list = <<>>
    /\ cg_queried = FALSE
    /\ completed_trace = None
    /\ raw_candidates \in FixCandidateLists
    /\ labeled_buggy_method \in BuggyLabels
    /\ LET r == _get_and_check_framework_stack(stack_trace, stack_trace_short_api) IN
       /\ framework_trace = r.framework_trace
       /\ framework_short_trace = r.framework_short_trace
       /\ framework_entry_api = Some(Last(r.framework_trace))
    /\ report_info =
          Some([candidates |-> [i \in 1..Len(raw_candidates) |->
                                   CandidateOf(raw_candidates[i])],
                buggy_method |-> SigRecord(labeled_buggy_method)])
    /\ statistic \in [fixed_failed_duplicate : 0..1, fixed_reports : 0..1]
    /\ crash_reports = <<>>
    /\ report_index = 0
    /\ OtherIdle
    /\ EqIdle
    /\ LocatorIdle

FixNext == FixCandidateSignature

FixSpec == FixInit /\ [][FixNext]_vars
(***************************************************************************)
(* MethodSignature.from_str followed by MethodSignature.__str__ on the     *)
(* well-formed texts of the two grammars.                                  *)
(***************************************************************************)
TextPackages == {<<"a">>, <<"a", ".", "b">>}
TextInnerClasses == {<<>>, <<"$", "I">>, <<"$", "I", "$", "J">>}
TextReturnTypes == {<<"v", "o", "i", "d">>, <<"i", "n", "t", "[", "]">>}
TextMethodNames == {Name_m, Text_init}
TextParameterLists ==
    {<<>>, <<"(", ")">>, <<"(", "i", "n", "t", ")">>,
     <<"(", "i", "n", "t", ",", "l", "o", "n", "g", ")">>,
     <<"(", "i", "n", "t", ",", " ", "l", "o", "n", "g", ")">>}
\* the full grammar: "pkg.Class$Inner: return_type name(parameters)"
FullTexts ==
    {package_name \o <<".", "B">> \o inner_class \o <<":", " ">> \o return_type
        \o <<" ">> \o method_name \o parameter_list :
        package_name \in TextPackages, inner_class \in TextInnerClasses,
        return_type \in TextReturnTypes, method_name \in TextMethodNames,
        parameter_list \in TextParameterLists}
\* the short grammar: "pkg.Class$Inner.name"
ShortTexts ==
    {package_name \o <<".", "B">> \o inner_class \o <<".">> \o method_name :
        package_name \in TextPackages, inner_class \in TextInnerClasses,
        method_name \in TextMethodNames}

StrInit ==
    /\ pc = "from_str"
    /\ failure = "none"
    /\ signature_text \in {Some(t) : t \in FullTexts \cup ShortTexts}
    /\ self_sig = None
    /\ other_sig = None
    /\ eq_result = FALSE
    /\ str_result = None
    /\ package_type = None
    /\ method_type = None
    /\ ResolveIdle
    /\ LocatorIdle
    /\ PipelineIdle

FromStr ==
    /\ pc = "from_str"
    /\ LET parsed == MethodSignature_from_str(signature_text[1]) IN
       IF parsed = None
       THEN /\ failure' = "InvalidSignatureException"
            /\ pc' = "failed"
            /\ UNCHANGED self_sig
       ELSE /\ self_sig' = parsed
            /\ pc' = "str"
            /\ UNCHANGED failure
    /\ UNCHANGED <<other_sig, eq_result, signature_text, str_result>>
    /\ UNCHANGED <<package_type, method_type>>
    /\ UNCHANGED <<resolveVars, locatorVars, pipelineVars>>

Str ==
    /\ pc = "str"
    /\ str_result' = Some(MethodSignature_str(self_sig[1]))
    /\ pc' = "str_done"
    /\ UNCHANGED <<self_sig, other_sig, eq_result, signature_text, failure>>
    /\ UNCHANGED <<package_type, method_type>>
    /\ UNCHANGED <<resolveVars, locatorVars, pipelineVars>>

StrNext == FromStr \/ Str

StrSpec == StrInit /\ [][StrNext]_vars
(***************************************************************************)
(* PackageType.get_package_type on the parsed signature and                *)
(* helper.get_method_type on the text of the same signature.               *)
(***************************************************************************)
TypePackages ==
    {Pkg_java, Pkg_java \o <<"x">>, Pkg_java_util, Pkg_android,
     Pkg_android \o <<"x">>, Pkg_android_view, Pkg_android_support,
     Pkg_android_support_v4, Pkg_com_android, Pkg_com_android \o <<".", "x">>,
     Pkg_com_app, <<"o", "r", "g", ".">> \o Pkg_java}
TypeTexts ==
    {package_name \o <<".", "B">> \o inner_class \o rest :
        package_name \in TypePackages,
        inner_class \in {<<>>, <<"$", "I">>},
        rest \in {<<".", "m">>,
                  <<":", " ", "v", "o", "i", "d", " ", "m", "(", ")">>,
                  <<":", " ", "v", "o", "i", "d", " ">> \o Text_init \o <<"(", ")">>,
                  <<":", " ", "v", "o", "i", "d", " ">> \o Text_clinit \o <<"(", ")">>}}

TypeInit ==
    /\ pc = "get_package_type"
    /\ failure = "none"
    /\ signature_text \in {Some(t) : t \in TypeTexts}
    /\ self_sig = None
    /\ other_sig = None
    /\ eq_result = FALSE
    /\ str_result = None
    /\ package_type = None
    /\ method_type = None
    /\ ResolveIdle
    /\ LocatorIdle
    /\ PipelineIdle

\* PackageType.get_package_type(MethodSignature.from_str(text))
GetPackageType ==
    /\ pc = "get_package_type"
    /\ \E parsed \in {MethodSignature_from_str(signature_text[1])} :
       IF parsed = None
       THEN /\ failure' = "InvalidSignatureException"
            /\ pc' = "failed"
            /\ UNCHANGED <<self_sig, package_type>>
       ELSE /\ self_sig' = parsed
            /\ package_type' = Some(PackageType_get_package_type(parsed[1]))
            /\ pc' = "get_method_type"
            /\ UNCHANGED failure
    /\ UNCHANGED <<other_sig, eq_result, signature_text, str_result, method_type>>
    /\ UNCHANGED <<resolveVars, locatorVars, pipelineVars>>

\* helper.get_method_type(text)
GetMethodType ==
    /\ pc = "get_method_type"
    /\ \E type \in {get_method_type_of_text(signature_text[1])} :
       IF type = "InvalidSignatureException"
       THEN /\ failure' = type
            /\ pc' = "failed"
            /\ UNCHANGED method_type
       ELSE /\ method_type' = Some(type)
            /\ pc' = "typed"
            /\ UNCHANGED failure
    /\ UNCHANGED <<self_sig, other_sig, eq_result, signature_text, str_result,
                   package_type>>
    /\ UNCHANGED <<resolveVars, locatorVars, pipelineVars>>

TypeNext == GetPackageType \/ GetMethodType

TypeSpec == TypeInit /\ [][TypeNext]_vars
(***************************************************************************)
(* main (pre_check.py): the loop over the crash-reports directory.  An     *)
(* entry is the directory's name, whether its crash-report file exists and *)
(* what pre_check does on that file: "ok" (it returns a ReportInfo) or the *)
(* class name of the exception it raises.                                  *)
(***************************************************************************)
MaxReports == 3

\* The subclasses of PreCheckException (exceptions.py).
PreCheckException ==
    {"EmptyExceptionInfoException", "InvalidSignatureException",
     "InvalidFrameworkStackException", "NoBuggyMethodCandidatesException",
     "CandidateCodeNotFoundException", "FrameworkCodeNotFoundException",
     "NoTerminalAPIException"}

\* The subclasses of CodeRetrievalException and of TreeSitterException.
CodeRetrievalException ==
    {"CodeFileNotFoundException", "MultipleMethodsCodeError",
     "NoMethodFoundCodeError", "ClassNotFoundException",
     "FieldNotFoundException", "MultipleClassesFoundCodeError",
     "MultipleChildrenFoundException"}

\* What pre_check does on one report: the exceptions are those its stages
\* raise.
PreCheckOutcomes ==
    {"ok", "InvalidSignatureException", "InvalidFrameworkStackException",
     "NoTerminalAPIException", "CandidateCodeNotFoundException",
     "FrameworkCodeNotFoundException", "NoBuggyMethodCandidatesException",
     "KeyError", "NotImplementedError", "TypeError"}

\* The entry named i: without a crash-report file, or with one on which
\* pre_check does k.
CrashReportEntry(i, k) ==
    IF k = "no_file" THEN [name |-> i, exists |-> FALSE, pre_check |-> "ok"]
    ELSE [name |-> i, exists |-> TRUE, pre_check |-> k]

\* str(e) of the exception that pre_check raised on an entry
MessageOf(entry) == <<entry.pre_check, entry.name>>

\* dict[key] = value
DictSet(d, key, value) ==
    [k \in DOMAIN d \cup {key} |-> IF k = key THEN value ELSE d[k]]

\* A plausible slip: every exception is handled like a PreCheckException.
ExceptClause_swallow(kind) == "PreCheckException"

\* main, lines 577-586: the except clause that handles an exception
ExceptClause(kind) ==
    IF kind \in PreCheckException THEN "PreCheckException" ELSE "Exception"

\* _failed_statistic
_failed_statistic(report_name, stat, kind, message) ==
    [stat EXCEPT
       !.invalid_report_exceptions =
           DictSet(@, kind, IF kind \in DOMAIN @ THEN @[kind] + 1 ELSE 1),
       !.invalid_reports_detail = DictSet(@, report_name, message),
       !.invalid_reports = @ + 1]

BatchInit ==
    /\ pc = "main_loop"
    /\ failure = "none"
    /\ \E n \in 1..MaxReports :
          \E kinds \in [1..n -> PreCheckOutcomes \cup {"no_file"}] :
             crash_reports = [i \in 1..n |-> CrashReportEntry(i, kinds[i])]
    /\ report_index = 1
    /\ OtherIdle
    /\ statistic = [total_reports |-> 0, valid_reports |-> 0,
                    invalid_reports |-> 0, invalid_report_exceptions |-> <<>>,
                    invalid_reports_detail |-> <<>>,
                    fixed_failed_duplicate |-> 0, fixed_reports |-> 0]
    /\ exception_info = "present"
    /\ stack_trace_short_api = <<>>
    /\ raw_candidates = <<>>
    /\ labeled_buggy_method = ""
    /\ framework_trace = <<>>
    /\ framework_short_trace = <<>>
    /\ framework_entry_api = None
    /\ report_info = None
    /\ EqIdle
    /\ ResolveIdle
    /\ LocatorIdle

BatchUnchanged ==
    UNCHANGED <<exception_info, stack_trace_short_api, raw_candidates,
                labeled_buggy_method, boundaryVars, report_info, crash_reports,
                otherVars,
                eqVars, resolveVars, locatorVars>>

\* main, lines 567-570: the entry holds no crash-report file
SkipEntry ==
    /\ pc = "main_loop"
    /\ report_index <= Len(crash_reports)
    /\ ~crash_reports[report_index].exists
    /\ report_index' = report_index + 1
    /\ UNCHANGED <<pc, failure, statistic>>
    /\ BatchUnchanged

\* main, lines 572-579: pre_check raises and the first clause handles it
ReportFails ==
    /\ pc = "main_loop"
    /\ report_index <= Len(crash_reports)
    /\ LET entry == crash_reports[report_index] IN
       /\ entry.exists
       /\ entry.pre_check # "ok"
       /\ ExceptClause(entry.pre_check) = "PreCheckException"
       /\ statistic' =
             _failed_statistic(entry.name,
                               [statistic EXCEPT !.total_reports = @ + 1],
                               entry.pre_check, MessageOf(entry))
    /\ report_index' = report_index + 1
    /\ UNCHANGED <<pc, failure>>
    /\ BatchUnchanged

\* main, lines 572-586: pre_check raises and the second clause calls exit(1)
ReportAborts ==
    /\ pc = "main_loop"
    /\ report_index <= Len(crash_reports)
    /\ LET entry == crash_reports[report_index] IN
       /\ entry.exists
       /\ entry.pre_check # "ok"
       /\ ExceptClause(entry.pre_check) = "Exception"
       /\ failure' = entry.pre_check
    /\ statistic' = [statistic EXCEPT !.total_reports = @ + 1]
    /\ pc' = "exited"
    /\ UNCHANGED report_index
    /\ BatchUnchanged

\* main, lines 572-590: pre_check returns; the else clause saves the report
\* and calls _successful_statistic, which reads
\* statistic.candidates_nums_distribution, a field that PreCheckStatistic
\* (my_types.py) does not declare: AttributeError, raised outside the try
\* body and so handled by no clause.
ReportSucceeds ==
    /\ pc = "main_loop"
    /\ report_index <= Len(crash_reports)
    /\ crash_reports[report_index].exists
    /\ crash_reports[report_index].pre_check = "ok"
    /\ statistic' = [statistic EXCEPT !.total_reports = @ + 1]
    /\ failure' = "AttributeError"
    /\ pc' = "raised"
    /\ UNCHANGED report_index
    /\ BatchUnchanged

\* main, lines 592-594: the loop is over and the statistic file is written
WriteStatistic ==
    /\ pc = "main_loop"
    /\ report_index > Len(crash_reports)
    /\ pc' = "written"
    /\ UNCHANGED <<failure, statistic, report_index>>
    /\ BatchUnchanged

BatchNext ==
    \/ SkipEntry
    \/ ReportFails
    \/ ReportAborts
    \/ ReportSucceeds
    \/ WriteStatistic

BatchSpec == BatchInit /\ [][BatchNext]_vars

(***************************************************************************)
(* _candidate_into_reason on the candidate section of a raw record whose   *)
(* trace has passed the boundary detection: every tag of                   *)
(* ReasonTypeLiteral and two tags outside it, each with an "Explanation    *)
(* Info" sentence in and out of the field-modified-then-passed format.     *)
(***************************************************************************)
UnknownTags == {"Key Variable Related 5", ""}
ReasonCandidateEntries ==
    {[RawCandidate(ShortNameOf("Y"), "Y", <<>>, tag) EXCEPT
         !.explanation_info = info] :
        tag \in ReasonTypeLiteral \cup UnknownTags,
        info \in {Explanation_modified_field, Explanation_other}}
ReasonCandidateLists ==
    UNION {[1..n -> ReasonCandidateEntries] : n \in 0..MaxCandidates}

ReasonInit ==
    /\ pc = "classified"
    /\ failure = "none"
    /\ stack_trace = <<<<"X">>, <<"Y">>>>
    /\ stack_trace_short_api = ShortTraceOf(stack_trace)
    /\ exception_info = "present"
    /\ android_cg = {}
    /\ apk_cg = {}
    /\ run = <<0, 0>>
    /\ next_method = <<>>
    /\ invoke_list = <<>>
    /\ cg_queried = FALSE
    /\ completed_trace = None
    /\ raw_candidates = <<>>
    /\ labeled_buggy_method = ""
    /\ framework_trace = <<<<"X">>>>
    /\ framework_short_trace = ShortTraceOf(framework_trace)
    /\ framework_entry_api = Some(<<"X">>)
    /\ report_info = None
    /\ statistic = [fixed_failed_duplicate |-> 0, fixed_reports |-> 0]
    /\ crash_reports = <<>>
    /\ report_index = 0
    /\ OtherIdle
    /\ EqIdle
    /\ LocatorIdle

BuildReasons == BuildCandidatesFrom(ReasonCandidateLists)

ReasonNext == BuildReasons

ReasonSpec == ReasonInit /\ [][ReasonNext]_vars

(***************************************************************************)
(* Two threads that each call pre_check on a report of their own and are   *)
(* in _fix_candidate_signature.  The report and the loop position are      *)
(* local to a thread; statistic is the one module-level object of          *)
(* pre_check.py.  "statistic.x += 1" reads the attribute and stores the    *)
(* sum in two steps, and a thread switch can fall between them.            *)
(***************************************************************************)
Threads == {1, 2}

ThreadTraces ==
    {<<<<"X">>, <<"Y">>>>, <<<<"X">>, <<"Y2">>>>, <<<<"X">>, <<"Y">>, <<"Y2">>>>,
     <<<<"X">>, <<"Y2">>, <<"Y2">>>>, <<<<"X">>, <<"Y">>, <<"A", "B", "C">>>>}
ThreadCandidateLists ==
    {<<CandidateOf(RawCandidate(ShortNameOf("Y"), "Y", <<>>, KEY_VAR_TERMINAL))>>,
     <<CandidateOf(RawCandidate(ShortNameOf("Y"), "Y", <<>>, KEY_API_INVOKED))>>,
     <<CandidateOf(RawCandidate(ShortNameOf("Y"), "Y", <<>>, KEY_VAR_TERMINAL)),
       CandidateOf(RawCandidate(ShortNameOf("Y"), "Y2", <<>>, KEY_VAR_TERMINAL))>>}

\* A thread at the head of the loop over report.candidates
ThreadStart(trace, cands) ==
    [pc |-> "scan", stack_trace |-> trace, candidates |-> cands, i |-> 1,
     counter |-> "", loaded |-> 0, failure |-> "none"]

ConcurrentInit ==
    /\ pc = "threads"
    /\ failure = "none"
    /\ threads \in [Threads -> {ThreadStart(trace, cands) :
                                   trace \in ThreadTraces,
                                   cands \in ThreadCandidateLists}]
    /\ statistic = [fixed_failed_duplicate |-> 0, fixed_reports |-> 0]
    /\ run_statistic = <<>>
    /\ base_candidates = <<>>
    /\ extra_candidates = <<>>
    /\ LoopIdle
    /\ exception_info = "present"
    /\ stack_trace_short_api = <<>>
    /\ raw_candidates = <<>>
    /\ labeled_buggy_method = ""
    /\ crash_reports = <<>>
    /\ report_index = 0
    /\ framework_trace = <<>>
    /\ framework_short_trace = <<>>
    /\ framework_entry_api = None
    /\ report_info = None
    /\ EqIdle
    /\ ResolveIdle
    /\ LocatorIdle

ConcurrentUnchanged ==
    UNCHANGED <<pc, failure, run_statistic, base_candidates, extra_candidates,
                loopVars,
                exception_info, stack_trace_short_api, raw_candidates,
                labeled_buggy_method, crash_reports, report_index, boundaryVars,
                report_info, eqVars, resolveVars, locatorVars>>

\* the loop moves to the next candidate, or ends
NextCandidate(th) ==
    [th EXCEPT !.i = @ + 1,
               !.pc = IF th.i + 1 > Len(th.candidates) THEN "done" ELSE "scan"]

\* _fix_candidate_signature, lines 427-441: the scan of the frames for the
\* candidate at the loop position, up to the first access to statistic
ThreadScan(t) ==
    /\ threads[t].pc = "scan"
    /\ LET th == threads[t]
           one == FixOne(th.candidates[th.i], th.stack_trace,
                         ShortTraceOf(th.stack_trace))
       IN threads' =
             [threads EXCEPT ![t] =
                 IF one.kind # "ok"
                 THEN [th EXCEPT !.pc = "failed", !.failure = one.kind]
                 ELSE IF one.duplicate = 1
                 THEN [th EXCEPT !.pc = "load", !.counter = "fixed_failed_duplicate"]
                 ELSE IF one.fixed = 1
                 THEN [th EXCEPT !.pc = "load", !.counter = "fixed_reports"]
                 ELSE NextCandidate(th)]
    /\ UNCHANGED statistic
    /\ ConcurrentUnchanged

\* lines 439 and 443, first half of "+= 1": the attribute is read
ThreadLoad(t) ==
    /\ threads[t].pc = "load"
    /\ threads' = [threads EXCEPT ![t].loaded = statistic[threads[t].counter],
                                  ![t].pc = "store"]
    /\ UNCHANGED statistic
    /\ ConcurrentUnchanged

\* lines 439 and 443, second half of "+= 1": the sum is stored; lines
\* 444-453: the signature of a corrected candidate is replaced
ThreadStore(t) ==
    /\ threads[t].pc = "store"
    /\ LET th == threads[t]
           one == FixOne(th.candidates[th.i], th.stack_trace,
                         ShortTraceOf(th.stack_trace))
       IN /\ statistic' = [statistic EXCEPT ![th.counter] = th.loaded + 1]
          /\ threads' =
                [threads EXCEPT ![t] =
                    NextCandidate([th EXCEPT !.candidates[th.i].signature =
                                                 one.signature])]
    /\ ConcurrentUnchanged

ConcurrentNext ==
    \E t \in Threads : ThreadScan(t) \/ ThreadLoad(t) \/ ThreadStore(t)

ConcurrentSpec == ConcurrentInit /\ [][ConcurrentNext]_vars


(***************************************************************************)
(* _get_method_code_in_file for signatures of anonymous classes, over      *)
(* files whose anonymous class bodies carry the "// from class:" comment   *)
(* and stand inside class declarations of several names                    *)
(***************************************************************************)
AnonInner1 == <<Pkg_com_app, "Main", "Inner", "1">>
d_anon_other ==
    Decl("Other$1: void m(int)", Name_m, "void", <<"int">>, <<"Other">>,
         "class_body", <<AnonMain1>>)
d_anon_inner ==
    Decl("Main$Inner$1: void m(int)", Name_m, "void", <<"int">>,
         <<"Inner", "Main">>, "class_body", <<AnonInner1>>)
d_anon_inner_other ==
    Decl("Other$Inner$1: void m(int)", Name_m, "void", <<"int">>,
         <<"Inner", "Other">>, "class_body", <<AnonInner1>>)
AnonDecls ==
    {d_m_int, d_anon_m_int, d_anon_other, d_anon_inner, d_anon_inner_other}
AnonFiles == {Some(f) : f \in SUBSET AnonDecls}
AnonQueries ==
    [package_name : {Pkg_com_app}, class_name : {"Main"},
     inner_class : {Some(<<"Inner">>), Some(<<"1">>), Some(<<"Inner", "1">>)},
     method_name : {Name_m},
     return_type : {None, Some(Type_void)},
     parameters : {None, Some(<<Type_int>>)}]

AnonInit ==
    /\ pc = "locate"
    /\ failure = "none"
    /\ method_signature \in {Some(q) : q \in AnonQueries}
    /\ code_file \in AnonFiles
    /\ candidate = None
    /\ app_tree = <<>>
    /\ framework_tree = <<>>
    /\ code_result = None
    /\ file_read = FALSE
    /\ tried = <<>>
    /\ EqIdle
    /\ ResolveIdle
    /\ PipelineIdle

AnonNext == GetMethodCodeInFile

AnonSpec == AnonInit /\ [][AnonNext]_vars

(***************************************************************************)
(* The while loop of report_completion, one turn per step, with the count  *)
(* of the turns begun and the trace the loop started from                  *)
(***************************************************************************)
\* lines 141-148: invoke_list as "while invoke_list[-1] in next_method"
\* builds it from list.  A walk that has made more appends than next_method
\* has keys is on a cycle and never ends; it is cut there, with its last
\* element still a key of next_method.
RECURSIVE WalkFrom(_, _)
WalkFrom(nm, list) ==
    IF Last(list) \notin DOMAIN nm \/ Len(list) > Cardinality(DOMAIN nm)
    THEN list
    ELSE WalkFrom(nm, Append(list, nm[Last(list)]))

\* lines 150-153: the run index..end_index of rev filled from its end with
\* invoke_list.pop()
FillRun(rev, index, end_index, list) ==
    [i \in 1..Len(rev) |->
        IF index <= i /\ i <= end_index
        THEN <<list[Len(list) - (end_index - i)]>>
        ELSE rev[i]]

IterationInit ==
    /\ pc = "pattern"
    /\ failure = "none"
    /\ stack_trace \in Traces
    /\ android_cg \in SUBSET AndroidEdges
    /\ apk_cg \in SUBSET ApkEdges
    /\ run = <<0, 0>>
    /\ next_method = <<>>
    /\ invoke_list = <<>>
    /\ cg_queried = FALSE
    /\ completed_trace = None
    /\ iteration = 0
    /\ input_trace = stack_trace
    /\ ObjectsIdle
    /\ EqIdle
    /\ LocatorIdle
    /\ RecordIdle

\* lines 231-234 of one turn: complete_self_invoke_trace on the first
\* qualifying run, from any root the set iteration can yield first
SelfInvokeTurn(rev, index) ==
    \E nm \in {NextMethodOf(Methods(rev[index]))} :
    \E root \in {m \in Methods(rev[index]) : m \notin Range(nm)} :
    \E list \in {WalkFrom(nm, <<root>>)} :
        IF Last(list) \in DOMAIN nm
        THEN /\ pc' = "chain_walk"
             /\ UNCHANGED <<stack_trace, failure>>
        ELSE IF RunEnd(rev, index) - index + 1 > Len(list)
        THEN /\ pc' = "failed"
             /\ failure' = "IndexError"
             /\ UNCHANGED stack_trace
        ELSE /\ stack_trace' =
                   Reverse(FillRun(rev, index, RunEnd(rev, index), list))
             /\ pc' = "pattern"
             /\ UNCHANGED failure

\* lines 227-247: one turn of the while loop, up to its continue or break
\* (or up to the chain walk that does not end, or the IndexError of the fill)
LoopIteration ==
    /\ pc = "pattern"
    /\ iteration' = iteration + 1
    /\ IF PatternRenew(stack_trace)
       THEN /\ stack_trace' = PatternRewrite(stack_trace)
            /\ pc' = "pattern"
            /\ UNCHANGED failure
       ELSE IF SelfInvokeStarts(Reverse(stack_trace)) # {}
       THEN SelfInvokeTurn(Reverse(stack_trace),
                           Min(SelfInvokeStarts(Reverse(stack_trace))))
       ELSE IF CompleteHits(Reverse(stack_trace), "get_called_methods") # {}
       THEN /\ stack_trace' =
                  Reverse(complete_stack_trace(Reverse(stack_trace),
                                               "get_called_methods"))
            /\ pc' = "pattern"
            /\ UNCHANGED failure
       ELSE IF CompleteHits(stack_trace, "get_callers_method") # {}
       THEN /\ stack_trace' =
                  complete_stack_trace(stack_trace, "get_callers_method")
            /\ pc' = AfterBackward(TRUE)
            /\ UNCHANGED failure
       ELSE /\ pc' = AfterBackward(FALSE)
            /\ UNCHANGED <<stack_trace, failure>>
    /\ UNCHANGED <<cgVars, selfInvokeVars, cg_queried, completed_trace, input_trace>>
    /\ UNCHANGED <<threads, run_statistic, base_candidates, extra_candidates>>
    /\ UNCHANGED <<eqVars, locatorVars, exception_info, stack_trace_short_api,
                   raw_candidates, labeled_buggy_method, boundaryVars,
                   report_info, statistic, crash_reports, report_index>>

IterationNext == LoopIteration

IterationSpec == IterationInit /\ [][IterationNext]_vars

(***************************************************************************)
(* RunStatistic.add_report and remove_report on one RunStatistic object    *)
(***************************************************************************)
MaxAdds == 3

ReportNames == {"report_1", "report_2"}
ProcessedReportInfo(total, retained, filtered) ==
    [report_status |-> "finished", total_candidates_count |-> total,
     retained_candidates_count |-> retained,
     is_buggy_method_filtered |-> filtered]
SkippedReportInfo == [report_status |-> "skipped"]
FailedReportInfo ==
    [report_status |-> "failed", exception_type |-> "ValueError",
     error_message |-> "message"]
FinishedReports ==
    {ProcessedReportInfo(1, 1, FALSE), ProcessedReportInfo(2, 1, TRUE),
     SkippedReportInfo, FailedReportInfo}

\* ProcessedReportInfo.filtered_candidates_count
filtered_candidates_count(info) ==
    info.total_candidates_count - info.retained_candidates_count

\* the fields of the object that model_dump_json writes
DumpOf(rs) ==
    [processed_reports |-> rs.processed_reports,
     processed_candidates |-> rs.processed_candidates,
     filtered_candidates |-> rs.filtered_candidates,
     retained_candidates |-> rs.retained_candidates,
     filtered_buggy_method |-> rs.filtered_buggy_method,
     skipped_reports |-> rs.skipped_reports,
     failed_reports |-> rs.failed_reports,
     finished_reports_detail |-> rs.finished_reports_detail]

\* _save_statistic: ValueError when no path is set, else the file holds the
\* dump (the detail sorted by name; the detail is a function here, which
\* has no order)
SaveRaises(rs) == rs.path = None
_save_statistic(rs) ==
    IF SaveRaises(rs) THEN rs ELSE [rs EXCEPT !.file = Some(DumpOf(rs))]

\* add_report, lines 146-165: the entry is stored under the name, replacing
\* an entry of that name, and the counters of the entry's kind are raised
Counted(rs, report_name, info) ==
    LET stored == [rs EXCEPT !.finished_reports_detail =
                       DictSet(@, report_name, info)]
    IN CASE info.report_status = "finished" ->
              [stored EXCEPT
                 !.processed_reports = @ + 1,
                 !.processed_candidates = @ + info.total_candidates_count,
                 !.filtered_candidates = @ + filtered_candidates_count(info),
                 !.retained_candidates = @ + info.retained_candidates_count,
                 !.filtered_buggy_method =
                     IF info.is_buggy_method_filtered THEN @ + 1 ELSE @]
         [] info.report_status = "skipped" ->
              [stored EXCEPT !.skipped_reports = @ + 1]
         [] info.report_status = "failed" ->
              [stored EXCEPT !.failed_reports = @ + 1]

\* the count of add_report calls that have raised a counter
Adds(rs) == rs.processed_reports + rs.skipped_reports + rs.failed_reports

StatisticInit ==
    /\ pc = "run_statistic"
    /\ failure = "none"
    /\ \E path \in {None, Some("statistic.json")} :
          run_statistic =
             [processed_reports |-> 0, processed_candidates |-> 0,
              filtered_candidates |-> 0, retained_candidates |-> 0,
              filtered_buggy_method |-> 0, skipped_reports |-> 0,
              failed_reports |-> 0, finished_reports_detail |-> <<>>,
              path |-> path, file |-> None]
    /\ threads = <<>>
    /\ base_candidates = <<>>
    /\ extra_candidates = <<>>
    /\ LoopIdle
    /\ RecordIdle
    /\ EqIdle
    /\ ResolveIdle
    /\ LocatorIdle

StatisticUnchanged ==
    UNCHANGED <<pc, threads, base_candidates, extra_candidates, loopVars,
                exception_info, stack_trace_short_api, raw_candidates,
                labeled_buggy_method, boundaryVars, report_info, statistic,
                crash_reports, report_index, eqVars, resolveVars, locatorVars>>

\* add_report, lines 140-167
AddReport ==
    /\ Adds(run_statistic) < MaxAdds
    /\ \E report_name \in ReportNames, finished_report \in FinishedReports :
          \E counted \in {Counted(run_statistic, report_name, finished_report)} :
             /\ run_statistic' = _save_statistic(counted)
             /\ failure' = IF SaveRaises(counted) THEN "ValueError" ELSE "none"
    /\ StatisticUnchanged

\* remove_report, lines 169-184
RemoveReport ==
    /\ \E report_name \in ReportNames :
          IF /\ report_name \in DOMAIN run_statistic.finished_reports_detail
             /\ run_statistic.finished_reports_detail[report_name].report_status
                  = "failed"
          THEN \E removed \in
                  {[run_statistic EXCEPT
                      !.finished_reports_detail =
                          [n \in DOMAIN @ \ {report_name} |-> @[n]],
                      !.failed_reports = @ - 1]} :
                  /\ run_statistic' = _save_statistic(removed)
                  /\ failure' = IF SaveRaises(removed) THEN "ValueError"
                                ELSE "none"
          ELSE /\ failure' = "ValueError"
               /\ UNCHANGED run_statistic
    /\ StatisticUnchanged

\* set_path, lines 186-188
SetPath ==
    /\ run_statistic.path = None
    /\ run_statistic' = [run_statistic EXCEPT !.path = Some("statistic.json")]
    /\ UNCHANGED failure
    /\ StatisticUnchanged

StatisticNext == AddReport \/ RemoveReport \/ SetPath

StatisticSpec == StatisticInit /\ [][StatisticNext]_vars

(***************************************************************************)
(* ReportInfo.base_candidates and ReportInfo.extra_candidates on reports   *)
(* of up to MaxCandidates candidates and MaxTraceLen short names           *)
(***************************************************************************)
ShortNames == {"a.B.m", "a.B.n", "a.B.x"}
SplitCandidates ==
    {[name |-> "a.B.m", signature |-> "a.B: void m()"],
     [name |-> "a.B.m", signature |-> "a.B: void m(int)"],
     [name |-> "a.B.n", signature |-> "a.B: void n()"],
     [name |-> "a.C.k", signature |-> "a.C: void k()"]}

SplitInit ==
    /\ pc = "report_info"
    /\ failure = "none"
    /\ \E n \in 0..MaxCandidates, k \in 0..MaxTraceLen :
          \E candidates \in [1..n -> SplitCandidates],
             short_api \in [1..k -> ShortNames] :
             report_info = Some([candidates |-> candidates,
                                 stack_trace_short_api |-> short_api])
    /\ base_candidates = None
    /\ extra_candidates = None
    /\ threads = <<>>
    /\ run_statistic = <<>>
    /\ LoopIdle
    /\ exception_info = "present"
    /\ stack_trace_short_api = <<>>
    /\ raw_candidates = <<>>
    /\ labeled_buggy_method = ""
    /\ framework_trace = <<>>
    /\ framework_short_trace = <<>>
    /\ framework_entry_api = None
    /\ statistic = [fixed_failed_duplicate |-> 0, fixed_reports |-> 0]
    /\ crash_reports = <<>>
    /\ report_index = 0
    /\ EqIdle
    /\ ResolveIdle
    /\ LocatorIdle

\* line 517: {candidate.name: candidate for candidate in self.candidates};
\* a later candidate of the same name replaces an earlier one
name_to_candidate(candidates) ==
    [name \in {candidates[i].name : i \in DOMAIN candidates} |->
        candidates[CHOOSE i \in DOMAIN candidates :
                      /\ candidates[i].name = name
                      /\ \A j \in DOMAIN candidates :
                            candidates[j].name = name => j <= i]]

\* lines 518-522: one element per short name of the trace that is a key
base_candidates_of(info) ==
    LET by_name == name_to_candidate(info.candidates)
        InDict(method) == method \in DOMAIN by_name
        hits == SelectSeq(info.stack_trace_short_api, InDict)
    IN [i \in 1..Len(hits) |-> by_name[hits[i]]]

\* lines 529-533
extra_candidates_of(info) ==
    LET NotInTrace(c) == c.name \notin Range(info.stack_trace_short_api)
    IN SelectSeq(info.candidates, NotInTrace)

SplitUnchanged ==
    UNCHANGED <<pc, failure, threads, run_statistic, loopVars,
                exception_info, stack_trace_short_api, raw_candidates,
                labeled_buggy_method, boundaryVars, report_info, statistic,
                crash_reports, report_index, eqVars, resolveVars, locatorVars>>

\* ReportInfo.base_candidates, lines 512-522
BaseCandidates ==
    /\ pc = "report_info"
    /\ base_candidates = None
    /\ base_candidates' = Some(base_candidates_of(report_info[1]))
    /\ UNCHANGED extra_candidates
    /\ SplitUnchanged

\* ReportInfo.extra_candidates, lines 524-533
ExtraCandidates ==
    /\ pc = "report_info"
    /\ extra_candidates = None
    /\ extra_candidates' = Some(extra_candidates_of(report_info[1]))
    /\ UNCHANGED base_candidates
    /\ SplitUnchanged

SplitNext == BaseCandidates \/ ExtraCandidates

SplitSpec == SplitInit /\ [][SplitNext]_vars
(***************************************************************************)
(* C1                                                                      *)
(***************************************************************************)
\* A field both sides specify and on which they differ.
SpecifiedAndDiffers(x, y) == x # None /\ y # None /\ x # y

C2_Terminates == <>(pc \in {"resolved", "failed"})

(***************************************************************************)
(* C3                                                                      *)
(***************************************************************************)
\* C3: a trace that still holds an ambiguous group after the fixed point,
\* at any position, makes pre_check end in a validation failure: pre_check
\* never returns a Report whose stack trace holds an ambiguous group.
C3_NoReportWithGroup == (pc = "done") => ~HoldsGroup(stack_trace)

(***************************************************************************)
(* C4                                                                      *)
(***************************************************************************)
\* C4: a raw record without exception info (the section or its entry is
\* missing, or the entry is empty) makes pre_check fail with
\* EmptyExceptionInfo before trace resolution starts: no call-graph query
\* and no source-file access has happened.
C4_EmptyExceptionInfoFirst ==
    (exception_info # "present" /\ pc # "start") =>
        /\ pc = "failed"
        /\ failure = "EmptyExceptionInfoException"
        /\ ~cg_queried
        /\ ~file_read

(***************************************************************************)
(* C5                                                                      *)
(***************************************************************************)
IsFrameworkFrame(frame) == FrameType(frame) \in {"ANDROID", "ANDROID_SUPPORT"}

\* C5: when _get_and_check_framework_stack succeeds, framework_trace is the
\* non-empty prefix trace[0..k-1] of framework and support frames, frame k
\* is the first application frame and is not part of framework_trace, and
\* the entry API is frame k-1, the last frame of framework_trace.
C5_FrameworkPrefix ==
    (pc = "classified") =>
        \E k \in 2..Len(stack_trace) :
            /\ framework_trace = SubSeq(stack_trace, 1, k - 1)
            /\ framework_short_trace = SubSeq(stack_trace_short_api, 1, k - 1)
            /\ \A i \in 1..(k - 1) : IsFrameworkFrame(stack_trace[i])
            /\ FrameType(stack_trace[k]) = "APPLICATION"
            /\ framework_entry_api = Some(stack_trace[k - 1])
            /\ framework_entry_api = Some(Last(framework_trace))

\* Witness: a framework and a support frame before the application frame.
C5_Witness ==
    /\ pc = "classified"
    /\ stack_trace = <<<<"X">>, <<"S">>, <<"Y">>>>
    /\ framework_trace = <<<<"X">>, <<"S">>>>
    /\ framework_entry_api = Some(<<"S">>)

(***************************************************************************)
(* C6                                                                      *)
(***************************************************************************)
JavaBeforeApplication(trace) ==
    \E j \in 1..Len(trace) :
        /\ FrameType(trace[j]) = "JAVA"
        /\ \A i \in 1..(j - 1) : FrameType(trace[i]) # "APPLICATION"
NoApplicationFrame(trace) ==
    \A i \in 1..Len(trace) : FrameType(trace[i]) # "APPLICATION"
FirstIsApplication(trace) ==
    Len(trace) >= 1 /\ FrameType(trace[1]) = "APPLICATION"
InvalidFrameworkStackCase(trace) ==
    \/ JavaBeforeApplication(trace)
    \/ NoApplicationFrame(trace)
    \/ FirstIsApplication(trace)
RaisedInvalidFrameworkStack ==
    /\ pc = "failed"
    /\ failure = "InvalidFrameworkStackException"
    /\ framework_trace = <<>>
    /\ framework_entry_api = None

\* the scan reaches an ambiguous group: the group is within the zipped
\* range and only framework and support frames precede it
GroupScanned(trace, short) ==
    \E g \in 1..Len(trace) :
        /\ g <= Len(short)
        /\ IsAmbiguous(trace[g])
        /\ \A i \in 1..(g - 1) : IsFrameworkFrame(trace[i])

Survivors ==
    FilteredMethods({m \in code_file[1] : m.name = method_signature[1].method_name},
                    method_signature[1])
FiltersRan ==
    /\ pc = "located"
    /\ code_result[1].kind \notin
         {"CodeFileNotFoundException", "MultipleChildrenFoundException"}

\* C7: after the filters have run, no surviving declaration raises
\* NoMethodFound, two or more raise MultipleMethodsFound and none is
\* returned, exactly one is returned; on a file with the overloads m(int)
\* and m(long) a query for m without parameters raises MultipleMethodsFound
\* and a query with the parameters [int] returns the int overload.
C7_Survivors ==
    FiltersRan =>
        /\ (Survivors = {}) => code_result[1] = Raised("NoMethodFoundCodeError")
        /\ (Cardinality(Survivors) >= 2) =>
               code_result[1] = Raised("MultipleMethodsCodeError")
        /\ (Cardinality(Survivors) = 1) =>
               \E m \in Survivors : code_result[1] = Returned(m.id)
        /\ (/\ code_file = Some({d_m_int, d_m_long})
            /\ method_signature[1].method_name = Name_m
            /\ method_signature[1].inner_class = None
            /\ method_signature[1].return_type \in {None, Some(Type_void)}) =>
               /\ (method_signature[1].parameters = None) =>
                      code_result[1] = Raised("MultipleMethodsCodeError")
               /\ (method_signature[1].parameters = Some(<<Type_int>>)) =>
                      code_result[1] = Returned(d_m_int.id)

\* Witness: the unparameterised query on the file with both overloads was
\* refused as ambiguous.
C7_Witness ==
    /\ pc = "located"
    /\ code_file = Some({d_m_int, d_m_long})
    /\ method_signature[1].method_name = Name_m
    /\ method_signature[1].parameters = None
    /\ code_result[1].kind = "MultipleMethodsCodeError"

(***************************************************************************)
(* C8                                                                      *)
(***************************************************************************)
\* the classes the lookup is to try, in order
ClassesToTry ==
    IF candidate[1].extend_hierarchy = <<>>
    THEN <<ClassSig(candidate[1].signature.package_name,
                    candidate[1].signature.class_name,
                    candidate[1].signature.inner_class)>>
    ELSE candidate[1].extend_hierarchy
PathOfClass(class_signature) ==
    <<class_signature.package_name, class_signature.class_name>>
\* what the i-th class gives when the search reaches it
ClassOutcome(i) ==
    LET sig == HierarchySignature(candidate[1], ClassesToTry[i]) IN
    IF PackageType_get_package_type(sig) # "APPLICATION" THEN Raised("ValueError")
    ELSE _get_method_code_in_file(FileAt(app_tree, PathOfClass(ClassesToTry[i])), sig)

\* C8: get_candidate_code tries the hierarchy classes in order (the
\* candidate's own class when the hierarchy is empty); NoMethodFound moves
\* on to the next class; any other error, and a class that is not
\* application-owned, ends the lookup at once with no later class tried;
\* the first class with exactly one declaration ends it with that source;
\* NoMethodFound from every class gives NoMethodFound.
C8_HierarchyWalk ==
    (pc = "candidate_code_done") =>
        LET stops == {i \in 1..Len(ClassesToTry) :
                         ClassOutcome(i).kind # "NoMethodFoundCodeError"}
        IN /\ \A j \in 1..Len(tried) :
                 j <= Len(ClassesToTry) /\ tried[j] = PathOfClass(ClassesToTry[j])
           /\ IF stops = {}
              THEN /\ code_result[1] = Raised("NoMethodFoundCodeError")
                   /\ Len(tried) = Len(ClassesToTry)
              ELSE /\ code_result[1] = ClassOutcome(Min(stops))
                   /\ Len(tried) =
                        IF ClassOutcome(Min(stops)).kind = "ValueError"
                        THEN Min(stops) - 1 ELSE Min(stops)

\* Witness: the candidate's class lacks the method and its base class holds
\* exactly one declaration of it.
C8_Witness ==
    /\ pc = "candidate_code_done"
    /\ candidate[1].extend_hierarchy = <<Class_Main, Class_Base>>
    /\ tried = <<Path_Main, Path_Base>>
    /\ code_result[1] = Returned(d_base_m_int.id)

(***************************************************************************)
(* C9                                                                      *)
(***************************************************************************)
BuggyMethodMatches ==
    \E i \in 1..Len(report_info[1].candidates) :
        MethodSignature_eq(report_info[1].candidates[i].signature,
                           report_info[1].buggy_method)

\* C9: every Report pre_check returns has a buggy method that is
\* wildcard-equal to the signature of a candidate of its final list; with
\* no such candidate (an empty list included) pre_check fails with
\* NoBuggyMethodCandidates and returns no Report.
C9_BuggyMethodAmongCandidates ==
    /\ [](pc = "done" => BuggyMethodMatches)
    /\ [][(pc = "framework_verified") =>
             IF BuggyMethodMatches
             THEN pc' = "done" /\ failure' = "none" /\ report_info' = report_info
             ELSE pc' = "failed" /\ failure' = "NoBuggyMethodCandidatesException"]_vars

\* Witness: a Report whose only match is a short-form candidate signature,
\* equal to the labeled method by the wildcard rule.
C9_Witness ==
    /\ pc = "done"
    /\ \E i \in 1..Len(report_info[1].candidates) :
          /\ report_info[1].candidates[i].signature.parameters = None
          /\ MethodSignature_eq(report_info[1].candidates[i].signature,
                                report_info[1].buggy_method)
    /\ report_info[1].buggy_method.parameters # None

(***************************************************************************)
(* C10                                                                     *)
(***************************************************************************)
NotOverriddenCategory(cand) ==
    cand.reason_type \in {NOT_OVERRIDE_METHOD, NOT_OVERRIDE_METHOD_EXECUTED}
\* the outcome of the hierarchy lookup of a candidate in the tree the step
\* reads
LookupKind(cand) == get_candidate_code(cand, app_tree').result.kind
RetrievalFailures ==
    {"CodeFileNotFoundException", "NoMethodFoundCodeError", "MultipleMethodsCodeError"}

PrunedBySpec(cand) ==
    /\ StartsWith(cand.signature.method_name, Name_access)
    /\ ~NotOverriddenCategory(cand)

\* C11: pruning removes a candidate if and only if its method name starts
\* with 'access$' and its reason is not the not-overridden category; a
\* not-overridden candidate is never pruned, whatever its method name.
C11_Pruning ==
    [][(pc = "corrected") =>
          report_info'[1].candidates =
             SelectSeq(report_info[1].candidates, LAMBDA c : ~PrunedBySpec(c))]_vars

(***************************************************************************)
(* C12                                                                     *)
(***************************************************************************)
\* the frames that have the candidate's short name and a parsed signature
\* unequal to the candidate's
SuchFrames(cand) ==
    {i \in 1..Len(stack_trace) :
        /\ ~IsAmbiguous(stack_trace[i])
        /\ stack_trace_short_api[i] = cand.name
        /\ ~MethodSignature_eq(SigRecord(stack_trace[i][1]), cand.signature)}
\* the candidates the spec leaves uncorrected and tallies
TalliedCandidates ==
    {i \in 1..Len(report_info[1].candidates) :
        /\ report_info[1].candidates[i].reason_type = KEY_VAR_TERMINAL
        /\ Cardinality(SuchFrames(report_info[1].candidates[i])) >= 2}

\* C12: signature correction changes a candidate's signature only if its
\* reason is the terminal-reaching category and exactly one frame has the
\* candidate's short name and a parsed signature unequal to the
\* candidate's, and the new signature is that frame's; with two or more
\* such frames the signature is unchanged and the ambiguity counter is
\* incremented; candidates of every other reason keep their signature.
C12_SignatureCorrection ==
    [][(pc = "built") =>
          LET before == report_info[1].candidates
              after == report_info'[1].candidates
          IN /\ Len(after) = Len(before)
             /\ \A i \in 1..Len(before) :
                   after[i].signature # before[i].signature =>
                      /\ before[i].reason_type = KEY_VAR_TERMINAL
                      /\ Cardinality(SuchFrames(before[i])) = 1
                      /\ \A k \in SuchFrames(before[i]) :
                            after[i].signature = SigRecord(stack_trace[k][1])
             /\ \A i \in TalliedCandidates : after[i].signature = before[i].signature
             /\ statistic'.fixed_failed_duplicate =
                   statistic.fixed_failed_duplicate + Cardinality(TalliedCandidates)]_vars

(***************************************************************************)
(* C13                                                                     *)
(***************************************************************************)
NoAccessorCandidate ==
    \A i \in 1..Len(raw_candidates) :
       ~StartsWith(raw_candidates[i].name[3], Name_access)
\* the typed candidate of the i-th raw record, with its signature as the
\* signature correction leaves it
CorrectedCandidate(i) ==
    LET built == CandidateOf(raw_candidates[i]) IN
    [built EXCEPT !.signature =
        FixOne(built, stack_trace, stack_trace_short_api).signature]
\* the hierarchy lookup of the candidate reaches a non-application class
ReachesNonApplication(cand) ==
    get_candidate_code(cand, app_tree).result.kind = "ValueError"
KeptCandidate(cand) ==
    cand.reason_type = NOT_OVERRIDE_METHOD \/ ~ReachesNonApplication(cand)
Resolvable(cand) == get_candidate_code(cand, app_tree).result.kind = "ok"
EqualsLabel(cand) ==
    MethodSignature_eq(cand.signature, SigRecord(labeled_buggy_method))
\* the end-to-end example: two candidates, one equal to the labeled buggy
\* method once corrected and one not, a fully resolved trace with a
\* one-frame framework trace, source for both candidates and the frame
ExamplePremise ==
    /\ Len(raw_candidates) = 2
    /\ NoAccessorCandidate
    /\ ~HoldsGroup(stack_trace)
    /\ Len(framework_trace) = 1
    /\ \E i, j \in 1..2 :
          /\ i # j
          /\ EqualsLabel(CorrectedCandidate(i))
          /\ ~EqualsLabel(CorrectedCandidate(j))
    /\ \A i \in 1..2 : Resolvable(CorrectedCandidate(i))
    /\ _check_framework_code_exist(framework_trace, framework_tree) = "ok"

Normalized(text) == SelectSeq(text, LAMBDA c : c # " ")

\* C14: for every well-formed signature text s of the full or of the short
\* grammar, str(MethodSignature.from_str(s)) equals s up to whitespace
\* normalization.
C14_RoundTrip ==
    (signature_text # None /\ pc \in {"str_done", "failed"}) =>
       /\ pc = "str_done"
       /\ Normalized(str_result[1]) = Normalized(signature_text[1])

(***************************************************************************)
(* C15                                                                     *)
(***************************************************************************)
\* C15: report_completion run again on a trace it has output, with the
\* same call graphs and pattern table, returns the same trace: no strategy
\* rewrites a frame, and the call ends without a failure.
C15_Idempotent ==
    completed_trace # None =>
       /\ stack_trace = completed_trace[1]
       /\ pc \in {"pattern", "self_invoke", "forward", "backward", "resolved"}
       /\ failure = "none"
\* the second call has returned, after call-graph queries, on a trace that
\* holds a resolved frame and still holds a group
C15_Witness ==
    /\ completed_trace # None
    /\ pc = "resolved"
    /\ HoldsGroup(stack_trace)
    /\ Len(stack_trace) = 3
    /\ ~IsAmbiguous(stack_trace[2])
    /\ cg_queried

(***************************************************************************)
(* C16                                                                     *)
(***************************************************************************)
GroupABC == <<"A", "B", "C">>
\* the trace holds one run of exactly three adjacent groups <A>; <B>; <C>
\* starting at position i, and no other ambiguous frame
ThreeRunAt(t, i) ==
    /\ i + 2 <= Len(t)
    /\ \A k \in 1..Len(t) : IsAmbiguous(t[k]) <=> k \in i..(i + 2)
    /\ \A k \in i..(i + 2) : t[k] = GroupABC
\* the call edges between members of the group are exactly A->B and B->C
ChainEdges ==
    {e \in android_cg : e[1] \in Range(GroupABC) /\ e[2] \in Range(GroupABC)}
       = {<<"A", "B">>, <<"B", "C">>}
\* the run replaced frame for frame: C on the most recent frame, A on the
\* oldest
ChainOrder(t, i) ==
    [k \in 1..Len(t) |->
        IF k = i THEN <<"C">> ELSE IF k = i + 1 THEN <<"B">>
        ELSE IF k = i + 2 THEN <<"A">> ELSE t[k]]

\* C16: a run of three adjacent identical groups {A,B,C}, with the edges
\* A->B and B->C and no callee of C inside the group, is replaced frame for
\* frame by A, B, C in caller-to-callee order (A on the oldest frame, C on
\* the most recent); the length is unchanged and each member occurs once.
C16_SelfInvokeChain ==
    /\ [][\A i \in 1..Len(stack_trace) :
             (pc = "self_invoke" /\ ThreeRunAt(stack_trace, i) /\ ChainEdges)
                => pc' = "chain_walk"]_vars
    /\ [][\A i \in 1..Len(stack_trace) :
             (pc = "fill" /\ ThreeRunAt(stack_trace, i) /\ ChainEdges)
                => stack_trace' = ChainOrder(stack_trace, i)]_vars

(***************************************************************************)
(* C17                                                                     *)
(***************************************************************************)
\* the prefix rules in the order of the claim
PrefixRule(package_name) ==
    IF StartsWith(package_name, <<"j", "a", "v", "a">>) THEN "JAVA"
    ELSE IF StartsWith(package_name,
                       <<"a", "n", "d", "r", "o", "i", "d", ".",
                         "s", "u", "p", "p", "o", "r", "t">>)
    THEN "ANDROID_SUPPORT"
    ELSE IF \/ StartsWith(package_name, <<"a", "n", "d", "r", "o", "i", "d">>)
            \/ StartsWith(package_name,
                          <<"c", "o", "m", ".", "a", "n", "d", "r", "o", "i", "d">>)
    THEN "ANDROID"
    ELSE "APPLICATION"

\* C17: the package type depends only on the package-name prefix, tested
\* in the order java, android.support, android or com.android, else
\* application; PackageType.get_package_type and helper.get_method_type
\* return the same type for every signature.
C17_PackageType ==
    (package_type # None /\ pc \in {"typed", "failed"}) =>
       /\ package_type[1] = PrefixRule(self_sig[1].package_name)
       /\ pc = "typed"
       /\ method_type = package_type

(***************************************************************************)
(* C18                                                                     *)
(***************************************************************************)
ShortForm(sig) == sig.return_type = None /\ sig.parameters = None
SameName(a, b) ==
    /\ a.package_name = b.package_name
    /\ a.class_name = b.class_name
    /\ a.inner_class = b.inner_class
    /\ a.method_name = b.method_name
\* parse('a.B: void m()') and parse('a.B.m')
Parsed_full == MethodSignature_from_str(<<"a", ".", "B", ":", " ", "v", "o", "i", "d", " ", "m", "(", ")">>)
Parsed_short == MethodSignature_from_str(<<"a", ".", "B", ".", "m">>)
\* some signature is equal to other and unequal to self
BreaksTransitivity ==
    \E c \in MethodSignature :
       MethodSignature_eq(other_sig, c) /\ ~MethodSignature_eq(self_sig, c)

\* C18: MethodSignature equality is reflexive and symmetric; a short-form
\* signature equals every full-form signature of the same package, class,
\* inner-class path and method name, as parse('a.B: void m()') ==
\* parse('a.B.m'); it is not transitive: a signature that specifies its
\* return type and a short form equal to it have a third signature that
\* equals the short form and not the first.
C18_EqNotTransitive ==
    (pc = "eq_done") =>
       /\ MethodSignature_eq(self_sig, self_sig)
       /\ eq_result = MethodSignature_eq(other_sig, self_sig)
       /\ (ShortForm(other_sig) /\ SameName(self_sig, other_sig)) => eq_result
       /\ Parsed_full # None /\ Parsed_short # None
       /\ MethodSignature_eq(Parsed_full[1], Parsed_short[1])
       /\ (ShortForm(other_sig) /\ SameName(self_sig, other_sig)
              /\ self_sig.return_type # None) => BreaksTransitivity
C18_Witness ==
    /\ pc = "eq_done"
    /\ eq_result
    /\ ShortForm(other_sig)
    /\ self_sig.return_type # None /\ self_sig.parameters # None
    /\ BreaksTransitivity
\* C19: in the batch driver a report on which pre_check raises a
\* PreCheckException is recorded under its name (the count of the
\* exception's class and the count of invalid reports grow by one, the
\* message is stored under the report's name) and the loop moves to the next
\* entry; an exception that is neither a PreCheckException nor of the
\* retrieval family ends the batch there: the position no longer moves, no
\* record of a failure is added, and no later entry is ever recorded.
Taxonomies == PreCheckException \cup CodeRetrievalException
CountOf(d, k) == IF k \in DOMAIN d THEN d[k] ELSE 0
C19_BatchDriver ==
    /\ [][(/\ pc = "main_loop"
           /\ report_index <= Len(crash_reports)
           /\ crash_reports[report_index].exists
           /\ crash_reports[report_index].pre_check \in PreCheckException)
          => LET entry == crash_reports[report_index] IN
             /\ CountOf(statistic'.invalid_report_exceptions, entry.pre_check)
                   = CountOf(statistic.invalid_report_exceptions, entry.pre_check) + 1
             /\ entry.name \in DOMAIN statistic'.invalid_reports_detail
             /\ statistic'.invalid_reports_detail[entry.name] = MessageOf(entry)
             /\ statistic'.invalid_reports = statistic.invalid_reports + 1
             /\ pc' = "main_loop"
             /\ report_index' = report_index + 1]_vars
    /\ [][(/\ pc = "main_loop"
           /\ report_index <= Len(crash_reports)
           /\ crash_reports[report_index].exists
           /\ crash_reports[report_index].pre_check \notin Taxonomies \cup {"ok"})
          => /\ pc' = "exited"
             /\ failure' = crash_reports[report_index].pre_check
             /\ statistic'.invalid_reports = statistic.invalid_reports
             /\ statistic'.invalid_report_exceptions = statistic.invalid_report_exceptions
             /\ statistic'.invalid_reports_detail = statistic.invalid_reports_detail]_vars
    /\ [][pc = "exited" => UNCHANGED <<pc, report_index, statistic>>]_vars
    /\ [](pc = "exited" =>
             \A name \in DOMAIN statistic.invalid_reports_detail : name < report_index)

\* A batch that recorded the failure of one report, went on, and was ended
\* by an unexpected exception of a later report, with an entry left over.
C19_Witness ==
    /\ pc = "exited"
    /\ statistic.invalid_reports >= 1
    /\ report_index < Len(crash_reports)
    /\ crash_reports[report_index].pre_check \notin Taxonomies

\* C20: _candidate_into_reason selects the variant by the explanation-type
\* tag alone: when the candidate section is converted, every candidate
\* whose tag is one of the nine known tags gets the variant of that tag (one
\* variant per tag), a candidate with any other tag makes the conversion
\* raise NotImplementedError, and no candidate is left out of the result.
\* As stated, this fails: a known tag can raise instead of yielding its
\* variant.
ExpectedVariant ==
    [tag \in ReasonTypeLiteral |->
        CASE tag = "Key Variable Related 1" -> "KeyVarTerminalReason"
          [] tag = "Key Variable Related 2" -> "KeyVarNonTerminalReason"
          [] tag = "Key API Related 1" -> "KeyApiInvokedReason"
          [] tag = "Key API Related 2 (Executed)" -> "KeyApiExecutedReason"
          [] tag = "Key Variable Related 4" -> "KeyVarModifiedFieldReason"
          [] tag = "Not Override Method 1" -> "NotOverrideMethodReason"
          [] tag = "Not Override Method 2 (Executed)" -> "NotOverrideMethodExecutedReason"
          [] tag = "Framework Recall" -> "FrameworkRecallReason"
          [] tag = "Key Variable Related 3" -> "KeyVar3Reason"]
KnownTagsOnly(raw) == \A i \in 1..Len(raw) : raw[i].reason_type \in ReasonTypeLiteral
AllConverted(raw, info) ==
    /\ info # None
    /\ Len(info[1].candidates) = Len(raw)
    /\ \A i \in 1..Len(raw) :
          info[1].candidates[i].reasons = ExpectedVariant[raw[i].reason_type]
NoTerminalCandidate(raw) == \A i \in 1..Len(raw) : ~raw[i].terminate
RaisedBy(raw, i) ==
    IF raw[i].reason_type \notin ReasonTypeLiteral THEN "NotImplementedError"
    ELSE IF raw[i].reason_type = "Key Variable Related 2" /\ NoTerminalCandidate(raw)
    THEN "NoTerminalAPIException"
    ELSE IF /\ raw[i].reason_type = "Key Variable Related 4"
            /\ raw[i].explanation_info # Explanation_modified_field
    THEN "TypeError"
    ELSE "none"
Recording(t) == threads[t].pc = "store" /\ threads'[t].pc # "store"
C21_NoSharedState ==
    [][\A t \in Threads :
          Recording(t) =>
             statistic'[threads[t].counter] = statistic[threads[t].counter] + 1]_vars


\* What each strategy would do on the current trace.
PatternApplies == PatternRenew(stack_trace)
SelfInvokeApplies == SelfInvokeStarts(Reverse(stack_trace)) # {}
ForwardApplies == CompleteHits(Reverse(stack_trace), "get_called_methods") # {}
BackwardApplies == CompleteHits(stack_trace, "get_callers_method") # {}
Rewritten == stack_trace' # stack_trace

\* C22: in each iteration the strategies are tried in the order literal
\* pattern, self-invocation run, caller-to-callee intersection,
\* callee-to-caller intersection; a strategy rewrites the trace only when no
\* earlier one applied to it, every rewrite is followed by a new iteration
\* that starts at the literal pattern match, and the loop is left only from
\* an iteration in which no strategy changed the trace.
C22_StrategyOrder ==
    [][/\ Rewritten => pc' = "pattern"
       /\ (Rewritten /\ pc = "fill") => ~PatternApplies
       /\ (Rewritten /\ pc = "forward") =>
             ~PatternApplies /\ ~SelfInvokeApplies /\ ForwardApplies
       /\ (Rewritten /\ pc = "backward") =>
             ~PatternApplies /\ ~SelfInvokeApplies /\ ~ForwardApplies
       /\ (pc' = "resolved" /\ pc # "resolved") =>
             /\ ~Rewritten
             /\ ~PatternApplies /\ ~SelfInvokeApplies
             /\ ~ForwardApplies /\ ~BackwardApplies
       /\ (pc' = "failed" /\ pc # "failed") => ~Rewritten]_vars

\* the callee-to-caller strategy is about to rewrite the trace: the three
\* earlier strategies of this iteration left it alone
C22_Witness ==
    /\ pc = "backward"
    /\ BackwardApplies
    /\ \E i \in 1..Len(stack_trace) : Len(stack_trace[i]) > 1

\* the call edges between members of one group
InGroupEdges(methods) ==
    {e \in methods \X methods : e[2] \in get_called_methods(e[1])}
\* the in-group edges are one chain through every member: a unique root and
\* one in-group callee for every member but the last
ExactChain(methods) ==
    \E s \in [1..Cardinality(methods) -> methods] :
        /\ \A j, k \in DOMAIN s : j # k => s[j] # s[k]
        /\ InGroupEdges(methods) = {<<s[k], s[k + 1]>> : k \in 1..(Len(s) - 1)}
\* position i of the reversed trace starts a pair of identical groups whose
\* in-group edges are one exact chain
ChainRunAt(rev, i) ==
    /\ i < Len(rev)
    /\ rev[i] = rev[i + 1]
    /\ IsAmbiguous(rev[i])
    /\ ExactChain(Methods(rev[i]))

\* C23: self-invocation resolution looks only at the call edges between
\* members of the group: a run whose in-group edges form one exact chain is
\* taken up for resolution whatever other callees its members have.
C23_InGroupEdgesOnly ==
    [][(pc = "self_invoke"
          /\ \E i \in 1..Len(stack_trace) : ChainRunAt(Reverse(stack_trace), i))
        => pc' = "chain_walk"]_vars

\* the reversed trace holds a pair of identical groups, and no such pair has
\* in-group edges that are one exact chain
NoExactChain(rev) ==
    /\ \E i \in 1..(Len(rev) - 1) : rev[i] = rev[i + 1] /\ IsAmbiguous(rev[i])
    /\ \A i \in 1..Len(rev) : ~ChainRunAt(rev, i)

\* C24: when the in-group links of a run's members are not one exact chain
\* (several roots, a member with no or several successors, a self-loop or a
\* cycle), self-invocation resolution passes the run by: the trace is left
\* as it is, no error is raised and the next strategy is tried.
C24_InexactChainSkipped ==
    [][(pc \in {"self_invoke", "chain_walk", "fill"}
          /\ NoExactChain(Reverse(stack_trace)))
        => /\ stack_trace' = stack_trace
           /\ pc' = "forward"
           /\ failure' = "none"]_vars

\* The frames of the trace (most recent first) that the intersection rule
\* can resolve: an ambiguous frame k next to a parsed frame whose call-graph
\* neighbours meet the group in exactly one member.  The caller of frame k
\* is frame k + 1, its callee is frame k - 1.
ByCaller(t) ==
    {k \in 1..(Len(t) - 1) :
        /\ IsAmbiguous(t[k]) /\ ~IsAmbiguous(t[k + 1])
        /\ Cardinality(get_called_methods(t[k + 1][1]) \cap Methods(t[k])) = 1}
ByCallee(t) ==
    {k \in 2..Len(t) :
        /\ IsAmbiguous(t[k]) /\ ~IsAmbiguous(t[k - 1])
        /\ Cardinality(get_callers_method(t[k - 1][1]) \cap Methods(t[k])) = 1}
\* frame k, and nothing else, is replaced by the member m
OneFrameReplaced(k, m) == stack_trace' = [stack_trace EXCEPT ![k] = <<m>>]

\* C25: neighbor intersection replaces an ambiguous frame only when it is
\* next to a parsed frame whose callees (neighbor is the caller) or callers
\* (neighbor is the callee) meet the group in exactly one member, and then
\* by that member; with an empty or a larger intersection the frame is left
\* alone; the caller-to-callee direction is tried first.
C25_NeighborIntersection ==
    [][/\ pc = "forward" =>
            IF ByCaller(stack_trace) = {} THEN ~Rewritten
            ELSE \E k \in ByCaller(stack_trace) :
                    \E m \in get_called_methods(stack_trace[k + 1][1])
                                \cap Methods(stack_trace[k]) :
                        OneFrameReplaced(k, m)
       /\ pc = "backward" =>
            /\ ByCaller(stack_trace) = {}
            /\ IF ByCallee(stack_trace) = {} THEN ~Rewritten
               ELSE \E k \in ByCallee(stack_trace) :
                       \E m \in get_callers_method(stack_trace[k - 1][1])
                                   \cap Methods(stack_trace[k]) :
                           OneFrameReplaced(k, m)]_vars

\* both directions can resolve a frame and the caller-to-callee one is at
\* its turn
C25_Witness ==
    /\ pc = "forward"
    /\ ByCaller(stack_trace) # {}
    /\ ByCallee(stack_trace) # {}

\* the named segments of the signature's class path, innermost first: the
\* class path without its anonymous last segment
NamedSegments(sig) ==
    Reverse(SubSeq(class_list(sig), 1, Len(class_list(sig)) - 1))
\* the enclosing class declarations of m spell, innermost first, the named
\* segments of sig
EnclosedInNamed(m, sig) ==
    \A i \in 1..Len(NamedSegments(sig)) :
        /\ i <= Len(m.classes)
        /\ m.classes[i] = NamedSegments(sig)[i]
\* the declarations left by the return-type, parameter and anonymous-class
\* filters
BeforeClassNameFilter(file, sig) ==
    _anonymous_class_filter(
        _methods_parameters_filter(
            _method_return_type_filter(
                {m \in file : m.name = sig.method_name}, sig), sig), sig)

\* C26: for a signature of an anonymous class the enclosing-class filter
\* drops only the anonymous segment and keeps a declaration only when its
\* enclosing class declarations match the remaining named segments; the
\* lookup answers from the declarations so kept.
C26_AnonymousClassFilter ==
    (/\ pc = "located"
     /\ _is_anonymous_class(method_signature[1]))
    => code_result[1] =
          SurvivorsResult(
              {m \in BeforeClassNameFilter(code_file[1], method_signature[1]) :
                  EnclosedInNamed(m, method_signature[1])})

\* C27: every rewrite of the resolution loop is in place: the trace keeps
\* its length, a frame that is not an ambiguous group is never modified, and
\* a rewritten frame becomes one of the members of the group that stood at
\* its position, also when a run is shorter or longer than its group.
C27_RewriteInPlace ==
    [][Rewritten =>
          /\ Len(stack_trace') = Len(stack_trace)
          /\ \A i \in 1..Len(stack_trace) :
                stack_trace'[i] # stack_trace[i] =>
                   /\ IsAmbiguous(stack_trace[i])
                   /\ Len(stack_trace'[i]) = 1
                   /\ stack_trace'[i][1] \in Methods(stack_trace[i])]_vars

\* a run of two frames of a group of three members is about to be filled
\* from a chain through all three
C27_Witness ==
    /\ pc = "fill"
    /\ run[2] - run[1] + 1 = 2
    /\ Len(invoke_list) = 3
    /\ Cardinality(Methods(Reverse(stack_trace)[run[1]])) = 3

\* the number of ambiguous frames of a trace
AmbiguousCount(t) == Cardinality({i \in 1..Len(t) : IsAmbiguous(t[i])})

\* C28: every rewrite of the resolution loop strictly reduces the number of
\* ambiguous frames, so the loop makes at most one more turn than the input
\* trace has ambiguous frames.
C28_LoopBound ==
    /\ [][Rewritten =>
            AmbiguousCount(stack_trace') < AmbiguousCount(stack_trace)]_vars
    /\ [](iteration <= AmbiguousCount(input_trace) + 1)

\* the loop has ended after as many turns as the bound allows, on an input
\* with at least two ambiguous frames
C28_Witness ==
    /\ pc = "resolved"
    /\ AmbiguousCount(input_trace) >= 2
    /\ iteration = AmbiguousCount(input_trace) + 1

\* C29: after any sequence of add_report and remove_report calls, a report
\* name added more than once included, the processed, skipped and failed
\* counters add up to the number of entries of finished_reports_detail.
C29_CountersMatchDetail ==
    pc = "run_statistic" =>
        run_statistic.processed_reports + run_statistic.skipped_reports
            + run_statistic.failed_reports
          = Cardinality(DOMAIN run_statistic.finished_reports_detail)

\* the number of positions of list that hold c
Occurrences(list, c) == Cardinality({i \in DOMAIN list : list[i] = c})

\* C30: base_candidates and extra_candidates partition the candidate list:
\* the first holds exactly the candidates whose name occurs in the
\* short-name trace, the second exactly the others, and every candidate
\* occurs once across the two, also when candidates share a name or a short
\* name occurs twice in the trace.
C30_CandidatePartition ==
    (/\ pc = "report_info"
     /\ base_candidates # None
     /\ extra_candidates # None)
    => \A c \in SplitCandidates :
          /\ Occurrences(base_candidates[1], c) =
                IF c.name \in Range(report_info[1].stack_trace_short_api)
                THEN Occurrences(report_info[1].candidates, c) ELSE 0
          /\ Occurrences(extra_candidates[1], c) =
                IF c.name \in Range(report_info[1].stack_trace_short_api)
                THEN 0 ELSE Occurrences(report_info[1].candidates, c)
====
